---------------------------- MODULE Spec2Model ----------------------------
(***************************************************************************)
(* A state-machine model of the rating/probability engine and the bet      *)
(* bookkeeping of the NBA and soccer betting bots.                         *)
(*                                                                         *)
(* Numbers are fixed-point integers:                                       *)
(*   ratings           1 unit = 1/RatingScale Elo point                    *)
(*   probabilities (%) 1 unit = 0.01 % (100 % = 100 * Pct)                 *)
(*   fractions         1 unit = 1/Unit (expected scores, Kelly fractions)  *)
(*   decimal odds      1 unit = 0.01                                       *)
(*   money             1 unit = 0.01 currency                              *)
(* A division rounds to the nearest unit, as floating point rounds to the  *)
(* nearest representable value.                                            *)
(***************************************************************************)
EXTENDS Integers, Sequences, FiniteSets, TLC

VARIABLES
    sport,        \* which bot this instance is: "nba" or "soccer"
    ratings,      \* team_ratings.ratings: key -> rating
    dbRatings,    \* the team_ratings table: team_name -> elo_rating
    gameResults,  \* the game_results table: the number of its rows
    games,        \* number of Elo updates applied so far
    bets,         \* the bets table: row i has id i
    bankroll,     \* bot.bankroll
    settles,      \* number of settle_bet calls made so far
    call,         \* the last operation called, with its arguments
    ret,          \* what that operation returned
    raised,       \* the exception that operation raised, "" when it returned
    threads,      \* the threads running update_ratings_after_game: locals and position
    ratings0      \* the rating store when those threads were started

vars == <<sport, ratings, dbRatings, gameResults, games, bets, bankroll, settles,
          call, ret, raised, threads, ratings0>>

---------------------------------------------------------------------------
(* Bounds of the model.                                                    *)

MaxGames == 1

MaxFetched == 1

---------------------------------------------------------------------------
(* Fixed-point scales.                                                     *)

RatingScale == 100 * 100
Unit        == 100 * 100
Pct         == 10 * 10
PowScale    == 1000 * 100

None == "None"

RoundDiv(a, b) == (a \div b) + (IF 2 * (a % b) >= b THEN 1 ELSE 0)

RoundInt(x, s) == IF x >= 0 THEN RoundDiv(x, s) ELSE -RoundDiv(-x, s)

Min(a, b) == IF a <= b THEN a ELSE b

Max(a, b) == IF a >= b THEN a ELSE b

Abs(x) == IF x >= 0 THEN x ELSE -x

---------------------------------------------------------------------------
(* Configuration.                                                          *)

INITIAL_ELO == 1500

NBA_ELO_K_FACTOR == 20

SOCCER_ELO_K_FACTOR == 32

ELO_HOME_ADV == 50

ELO_K == 20

InitialRating == INITIAL_ELO * RatingScale

---------------------------------------------------------------------------
(* Text.  A string of the program is a TLA+ string; Spell gives its        *)
(* characters, on which lower(), strip(), split() and startswith() work.   *)

Spell ==
    "" :> <<>> @@
    "Boston Celtics" :> <<"B","o","s","t","o","n"," ","C","e","l","t","i","c","s">> @@
    "boston celtics" :> <<"b","o","s","t","o","n"," ","c","e","l","t","i","c","s">> @@
    " BOS " :> <<" ","B","O","S"," ">> @@
    "la  lakers" :> <<"l","a"," "," ","l","a","k","e","r","s">> @@
    "lakers" :> <<"l","a","k","e","r","s">> @@
    "Los Angeles Lakers" :> <<"L","o","s"," ","A","n","g","e","l","e","s"," ","L","a","k","e","r","s">> @@
    "New Orleans Pelicans" :> <<"N","e","w"," ","O","r","l","e","a","n","s"," ","P","e","l","i","c","a","n","s">> @@
    "la lakers" :> <<"l","a"," ","l","a","k","e","r","s">> @@
    "lal" :> <<"l","a","l">> @@
    "bos" :> <<"b","o","s">> @@
    "no pelicans" :> <<"n","o"," ","p","e","l","i","c","a","n","s">> @@
    "new orleans" :> <<"n","e","w"," ","o","r","l","e","a","n","s">> @@
    "new orleans pelicans" :> <<"n","e","w"," ","o","r","l","e","a","n","s"," ","p","e","l","i","c","a","n","s">> @@
    "pelicans" :> <<"p","e","l","i","c","a","n","s">> @@
    "nola" :> <<"n","o","l","a">> @@
    "nop" :> <<"n","o","p">> @@
    "no" :> <<"n","o">> @@
    "nor" :> <<"n","o","r">> @@
    "BOS" :> <<"B","O","S">> @@
    "LAL" :> <<"L","A","L">> @@
    "Team A" :> <<"T","e","a","m"," ","A">> @@
    "Team B" :> <<"T","e","a","m"," ","B">> @@
    "Final" :> <<"F","i","n","a","l">> @@
    "final" :> <<"f","i","n","a","l">> @@
    "Final/OT" :> <<"F","i","n","a","l","/","O","T">> @@
    " Final/OT" :> <<" ","F","i","n","a","l","/","O","T">> @@
    "final/" :> <<"f","i","n","a","l","/">> @@
    "3rd Qtr" :> <<"3","r","d"," ","Q","t","r">>

Strings == DOMAIN Spell

\* the string whose characters are cs
Intern(cs) == CHOOSE s \in Strings : Spell[s] = cs

UpperChars == <<"A","B","C","D","E","F","G","H","I","J","K","L","M","N","O","P","Q","R","S","T","U","V","W","X","Y","Z">>

LowerChars == <<"a","b","c","d","e","f","g","h","i","j","k","l","m","n","o","p","q","r","s","t","u","v","w","x","y","z">>

\* str.lower() on one character
LowerChar(c) ==
    IF \E i \in 1..Len(UpperChars) : UpperChars[i] = c
    THEN LowerChars[CHOOSE i \in 1..Len(UpperChars) : UpperChars[i] = c]
    ELSE c

\* str.lower()
StrLower(s) == [i \in 1..Len(s) |-> LowerChar(s[i])]

\* A character of s survives " ".join(s.strip().split()) when it is not
\* white space, or is the first blank after a word that another word follows.
KeepChar(s, i) ==
    \/ s[i] # " "
    \/ /\ i > 1
       /\ s[i-1] # " "
       /\ \E j \in (i+1)..Len(s) : s[j] # " "

RECURSIVE CollapseFrom(_, _)
CollapseFrom(s, i) ==
    IF i > Len(s) THEN <<>>
    ELSE (IF KeepChar(s, i) THEN <<s[i]>> ELSE <<>>) \o CollapseFrom(s, i + 1)

\* " ".join(str(name).strip().split())
CollapseSpaces(s) == CollapseFrom(s, 1)

\* The entries of the alias table for three franchises (the table holds the
\* same kinds of entry for the other 27).
Aliases ==
    { << "la lakers", "Los Angeles Lakers" >>,
      << "lakers", "Los Angeles Lakers" >>,
      << "lal", "Los Angeles Lakers" >>,
      << "bos", "Boston Celtics" >>,
      << "no pelicans", "New Orleans Pelicans" >>,
      << "new orleans", "New Orleans Pelicans" >>,
      << "new orleans pelicans", "New Orleans Pelicans" >>,
      << "pelicans", "New Orleans Pelicans" >>,
      << "nola", "New Orleans Pelicans" >>,
      << "nop", "New Orleans Pelicans" >>,
      << "no", "New Orleans Pelicans" >>,
      << "nor", "New Orleans Pelicans" >> }

\* normalize_team_name on the characters of the name
NormalizeChars(name) ==
    IF name = <<>> THEN <<>>
    ELSE LET n == CollapseSpaces(name)
             l == StrLower(n)
         IN  IF \E p \in Aliases : Spell[p[1]] = l
             THEN Spell[(CHOOSE p \in Aliases : Spell[p[1]] = l)[2]]
             ELSE n

\* normalize_team_name for every string of the model, computed once
NormalizedName == [s \in Strings |-> Intern(NormalizeChars(Spell[s]))]

normalize_team_name(name) == NormalizedName[name]

---------------------------------------------------------------------------
(* Elo arithmetic.                                                         *)

\* 10^(n/400) for n = 0..399, in units of 1/PowScale
Pow10Table ==
  <<
     100000, 100577, 101158, 101742, 102329, 102920, 103514, 104112, 104713, 105317,
     105925, 106537, 107152, 107771, 108393, 109018, 109648, 110281, 110917, 111558,
     112202, 112850, 113501, 114156, 114815, 115478, 116145, 116815, 117490, 118168,
     118850, 119536, 120226, 120921, 121619, 122321, 123027, 123737, 124451, 125170,
     125893, 126619, 127350, 128086, 128825, 129569, 130317, 131069, 131826, 132587,
     133352, 134122, 134896, 135675, 136458, 137246, 138038, 138835, 139637, 140443,
     141254, 142069, 142889, 143714, 144544, 145378, 146218, 147062, 147911, 148765,
     149624, 150487, 151356, 152230, 153109, 153993, 154882, 155776, 156675, 157580,
     158489, 159404, 160325, 161250, 162181, 163117, 164059, 165006, 165959, 166917,
     167880, 168850, 169824, 170805, 171791, 172783, 173780, 174783, 175792, 176807,
     177828, 178855, 179887, 180926, 181970, 183021, 184077, 185140, 186209, 187284,
     188365, 189452, 190546, 191646, 192752, 193865, 194984, 196110, 197242, 198381,
     199526, 200678, 201837, 203002, 204174, 205353, 206538, 207730, 208930, 210136,
     211349, 212569, 213796, 215030, 216272, 217520, 218776, 220039, 221309, 222587,
     223872, 225165, 226464, 227772, 229087, 230409, 231739, 233077, 234423, 235776,
     237137, 238506, 239883, 241268, 242661, 244062, 245471, 246888, 248313, 249747,
     251189, 252639, 254097, 255564, 257040, 258523, 260016, 261517, 263027, 264545,
     266073, 267609, 269153, 270707, 272270, 273842, 275423, 277013, 278612, 280221,
     281838, 283465, 285102, 286748, 288403, 290068, 291743, 293427, 295121, 296825,
     298538, 300262, 301995, 303739, 305492, 307256, 309030, 310814, 312608, 314413,
     316228, 318053, 319890, 321736, 323594, 325462, 327341, 329230, 331131, 333043,
     334965, 336899, 338844, 340800, 342768, 344747, 346737, 348739, 350752, 352777,
     354813, 356862, 358922, 360994, 363078, 365174, 367282, 369403, 371535, 373680,
     375837, 378007, 380189, 382384, 384592, 386812, 389045, 391291, 393550, 395822,
     398107, 400405, 402717, 405042, 407380, 409732, 412098, 414477, 416869, 419276,
     421697, 424131, 426580, 429042, 431519, 434010, 436516, 439036, 441570, 444120,
     446684, 449262, 451856, 454465, 457088, 459727, 462381, 465050, 467735, 470435,
     473151, 475883, 478630, 481393, 484172, 486968, 489779, 492606, 495450, 498310,
     501187, 504081, 506991, 509918, 512861, 515822, 518800, 521795, 524807, 527837,
     530884, 533949, 537032, 540132, 543250, 546387, 549541, 552713, 555904, 559114,
     562341, 565588, 568853, 572137, 575440, 578762, 582103, 585464, 588844, 592243,
     595662, 599101, 602560, 606038, 609537, 613056, 616595, 620155, 623735, 627336,
     630957, 634600, 638263, 641948, 645654, 649382, 653131, 656901, 660693, 664508,
     668344, 672202, 676083, 679986, 683912, 687860, 691831, 695825, 699842, 703882,
     707946, 712033, 716143, 720278, 724436, 728618, 732825, 737055, 741310, 745590,
     749894, 754223, 758578, 762957, 767361, 771792, 776247, 780728, 785236, 789769,
     794328, 798914, 803526, 808165, 812831, 817523, 822243, 826990, 831764, 836566,
     841395, 846253, 851138, 856052, 860994, 865964, 870964, 875992, 881049, 886135,
     891251, 896396, 901571, 906776, 912011, 917276, 922571, 927897, 933254, 938642,
     944061, 949511, 954993, 960506, 966051, 971628, 977237, 982879, 988553, 994260
  >>

RECURSIVE TenTo(_)
TenTo(q) == IF q = 0 THEN 1 ELSE 10 * TenTo(q - 1)

\* math.pow(10, d / 400) for a whole number d of Elo points, in 1/PowScale
Pow10Elo(d) ==
    LET q == d \div 400
        n == d % 400
    IN  IF q >= 0 THEN Pow10Table[n + 1] * TenTo(q)
        ELSE RoundDiv(Pow10Table[n + 1], TenTo(-q))

\* 1.0 / (1.0 + math.pow(10.0, (rating_b - rating_a) / 400.0)), in 1/Unit
expected_score(rating_a, rating_b) ==
    LET d == RoundInt(rating_b - rating_a, RatingScale)
    IN  RoundDiv(Unit * PowScale, PowScale + Pow10Elo(d))

---------------------------------------------------------------------------
(* The NBA rating store (NBATeamRatings).                                  *)

Put(r, k, v) == [x \in (DOMAIN r) \cup {k} |-> IF x = k THEN v ELSE r[x]]

\* get_rating without its "not in self.ratings" test: every read re-initialises
NBA_get_rating_store_Reinit(r, team_name) ==
    Put(r, normalize_team_name(team_name), InitialRating)

\* the store after NBATeamRatings.get_rating(team_name)
NBA_get_rating_store(r, team_name) ==
    LET key == normalize_team_name(team_name)
    IN  IF key \notin DOMAIN r THEN Put(r, key, InitialRating) ELSE r

\* the value NBATeamRatings.get_rating(team_name) returns
NBA_get_rating(r, team_name) ==
    NBA_get_rating_store(r, team_name)[normalize_team_name(team_name)]

\* update_rating replacing the dict: the other entries fall back to the
\* initial rating
NBA_update_rating_Clobber(r, team_name, new_rating) ==
    [x \in (DOMAIN r) \cup {normalize_team_name(team_name)} |->
        IF x = normalize_team_name(team_name) THEN new_rating ELSE InitialRating]

NBA_update_rating(r, team_name, new_rating) ==
    Put(r, normalize_team_name(team_name), new_rating)

\* k_factor * (actual - expected), as a rating change
EloDelta(k, actual, expected) ==
    k * RoundInt((actual - expected) * RatingScale, Unit)

\* update_ratings_after_game with away_expected = home_expected
NBA_update_ratings_after_game_SameExpected(r, home_team, away_team, home_won) ==
    LET home_key      == normalize_team_name(home_team)
        away_key      == normalize_team_name(away_team)
        home_rating   == NBA_get_rating(r, home_key)
        r1            == NBA_get_rating_store(r, home_key)
        away_rating   == NBA_get_rating(r1, away_key)
        r2            == NBA_get_rating_store(r1, away_key)
        home_expected == expected_score(home_rating, away_rating)
        away_expected == home_expected
        home_actual   == IF home_won THEN Unit ELSE 0
        away_actual   == IF home_won THEN 0 ELSE Unit
        r3            == NBA_update_rating(r2, home_key,
                             home_rating + EloDelta(NBA_ELO_K_FACTOR, home_actual, home_expected))
    IN  NBA_update_rating(r3, away_key,
            away_rating + EloDelta(NBA_ELO_K_FACTOR, away_actual, away_expected))

\* update_ratings_after_game reading the away rating and the expectation
\* after the home rating was written
NBA_update_ratings_after_game_Sequential(r, home_team, away_team, home_won) ==
    LET home_key      == normalize_team_name(home_team)
        away_key      == normalize_team_name(away_team)
        home_rating   == NBA_get_rating(r, home_key)
        r1            == NBA_get_rating_store(r, home_key)
        away_first    == NBA_get_rating(r1, away_key)
        home_actual   == IF home_won THEN Unit ELSE 0
        away_actual   == IF home_won THEN 0 ELSE Unit
        r2            == NBA_update_rating(NBA_get_rating_store(r1, away_key), home_key,
                             home_rating + EloDelta(NBA_ELO_K_FACTOR, home_actual,
                                               expected_score(home_rating, away_first)))
        away_rating   == NBA_get_rating(r2, away_key)
        away_expected == expected_score(away_rating, NBA_get_rating(r2, home_key))
    IN  NBA_update_rating(r2, away_key,
            away_rating + EloDelta(NBA_ELO_K_FACTOR, away_actual, away_expected))

NBA_update_ratings_after_game(r, home_team, away_team, home_won) ==
    LET home_key      == normalize_team_name(home_team)
        away_key      == normalize_team_name(away_team)
        home_rating   == NBA_get_rating(r, home_key)
        r1            == NBA_get_rating_store(r, home_key)
        away_rating   == NBA_get_rating(r1, away_key)
        r2            == NBA_get_rating_store(r1, away_key)
        home_expected == expected_score(home_rating, away_rating)
        away_expected == Unit - home_expected
        home_actual   == IF home_won THEN Unit ELSE 0
        away_actual   == IF home_won THEN 0 ELSE Unit
        r3            == NBA_update_rating(r2, home_key,
                             home_rating + EloDelta(NBA_ELO_K_FACTOR, home_actual, home_expected))
    IN  NBA_update_rating(r3, away_key,
            away_rating + EloDelta(NBA_ELO_K_FACTOR, away_actual, away_expected))

---------------------------------------------------------------------------
(* elo.py: the helpers update_ratings_from_api uses.                       *)

\* 1.0 / (1.0 + 10.0 ** (-((r_home + home_adv - r_away) / 400.0)))
elo_expected_score(r_home, r_away, home_adv) ==
    LET d == RoundInt(r_home + home_adv * RatingScale - r_away, RatingScale)
    IN  RoundDiv(Unit * PowScale, PowScale + Pow10Elo(-d))

update_elo(r_home, r_away, home_won, k, home_adv) ==
    LET e_home == elo_expected_score(r_home, r_away, home_adv)
        s_home == IF home_won THEN Unit ELSE 0
    IN  << r_home + EloDelta(k, s_home, e_home),
           r_away + EloDelta(k, Unit - s_home, Unit - e_home) >>

---------------------------------------------------------------------------
(* NBADatabase: the team_ratings and game_results tables.                  *)

\* save_team_rating filing the row under the name as given
save_team_rating_AsGiven(db, team_name, elo_rating) == Put(db, team_name, elo_rating)

save_team_rating(db, team_name, elo_rating) ==
    Put(db, normalize_team_name(team_name), elo_rating)

\* load_team_ratings: rows in table order, the last row of a key wins.  The
\* table's primary key is the stored name, so rows differ in their name.
load_team_ratings(db) ==
    LET keys == { normalize_team_name(t) : t \in DOMAIN db }
    IN  [k \in keys |->
            db[CHOOSE t \in DOMAIN db : normalize_team_name(t) = k]]

\* add_game_result inserts one row; the table is never read, so the model
\* keeps the number of its rows
add_game_result(rows, home_team, away_team, home_score, away_score) == rows + 1

---------------------------------------------------------------------------
(* The soccer rating store (TeamRatings): keys are the names as given.     *)

Soccer_get_rating_store(r, team_name) ==
    IF team_name \notin DOMAIN r THEN Put(r, team_name, InitialRating) ELSE r

Soccer_get_rating(r, team_name) == Soccer_get_rating_store(r, team_name)[team_name]

Soccer_update_rating(r, team_name, new_rating) == Put(r, team_name, new_rating)

\* update_ratings_after_match with the two score comparisons exchanged
update_ratings_after_match_Swapped(r, home_team, away_team, home_score, away_score) ==
    LET home_rating   == Soccer_get_rating(r, home_team)
        r1            == Soccer_get_rating_store(r, home_team)
        away_rating   == Soccer_get_rating(r1, away_team)
        r2            == Soccer_get_rating_store(r1, away_team)
        home_expected == expected_score(home_rating, away_rating)
        away_expected == Unit - home_expected
        home_actual   == IF home_score < away_score THEN Unit
                         ELSE IF home_score > away_score THEN 0 ELSE Unit \div 2
        away_actual   == IF home_score < away_score THEN 0
                         ELSE IF home_score > away_score THEN Unit ELSE Unit \div 2
        new_home_rating == home_rating + EloDelta(SOCCER_ELO_K_FACTOR, home_actual, home_expected)
        new_away_rating == away_rating + EloDelta(SOCCER_ELO_K_FACTOR, away_actual, away_expected)
    IN  Soccer_update_rating(Soccer_update_rating(r2, home_team, new_home_rating),
                             away_team, new_away_rating)

update_ratings_after_match(r, home_team, away_team, home_score, away_score) ==
    LET home_rating   == Soccer_get_rating(r, home_team)
        r1            == Soccer_get_rating_store(r, home_team)
        away_rating   == Soccer_get_rating(r1, away_team)
        r2            == Soccer_get_rating_store(r1, away_team)
        home_expected == expected_score(home_rating, away_rating)
        away_expected == Unit - home_expected
        home_actual   == IF home_score > away_score THEN Unit
                         ELSE IF home_score < away_score THEN 0 ELSE Unit \div 2
        away_actual   == IF home_score > away_score THEN 0
                         ELSE IF home_score < away_score THEN Unit ELSE Unit \div 2
        new_home_rating == home_rating + EloDelta(SOCCER_ELO_K_FACTOR, home_actual, home_expected)
        new_away_rating == away_rating + EloDelta(SOCCER_ELO_K_FACTOR, away_actual, away_expected)
    IN  Soccer_update_rating(Soccer_update_rating(r2, home_team, new_home_rating),
                             away_team, new_away_rating)

---------------------------------------------------------------------------
(* update_ratings_from_api: the loop over the fetched games.               *)

RECURSIVE LStripFrom(_, _)
LStripFrom(s, i) ==
    IF i > Len(s) THEN <<>>
    ELSE IF s[i] = " " THEN LStripFrom(s, i + 1)
    ELSE SubSeq(s, i, Len(s))

RECURSIVE RStrip(_)
RStrip(s) ==
    IF s = <<>> THEN <<>>
    ELSE IF s[Len(s)] = " " THEN RStrip(SubSeq(s, 1, Len(s) - 1))
    ELSE s

\* str.strip()
Strip(s) == RStrip(LStripFrom(s, 1))

\* str.startswith(prefix)
StartsWith(s, prefix) ==
    /\ Len(s) >= Len(prefix)
    /\ SubSeq(s, 1, Len(prefix)) = prefix

\* (g.get(field) or "").lower().strip(), as characters; a missing field is ""
StatusText(v) == Strip(StrLower(Spell[v]))

is_final(g) ==
    LET period_detail == StatusText(g.period_detail)
        status        == StatusText(g.status)
    IN  \/ status = Spell["final"]
        \/ period_detail = Spell["final"]
        \/ StartsWith(period_detail, Spell["final/"])

\* g.get("home_team_score") is None
NoScore == 0 - 1

\* whether the loop body updates the ratings for game g
ApiGameCounts(g) ==
    /\ is_final(g)
    /\ g.home_team_score # NoScore
    /\ g.visitor_team_score # NoScore

\* one pass of the loop body over st = [ratings, db, results, updated]
ApiStep(st, g) ==
    IF ~ApiGameCounts(g) THEN st
    ELSE LET home_won == g.home_team_score > g.visitor_team_score
             r_home   == NBA_get_rating(st.ratings, g.home_abbr)
             r1       == NBA_get_rating_store(st.ratings, g.home_abbr)
             r_away   == NBA_get_rating(r1, g.visitor_abbr)
             r2       == NBA_get_rating_store(r1, g.visitor_abbr)
             new      == update_elo(r_home, r_away, home_won, ELO_K, ELO_HOME_ADV)
             r3       == NBA_update_rating(r2, g.home_abbr, new[1])
             r4       == NBA_update_rating(r3, g.visitor_abbr, new[2])
             d1       == save_team_rating(st.db, g.home_abbr, new[1])
             d2       == save_team_rating(d1, g.visitor_abbr, new[2])
         IN  [ratings |-> r4,
              db      |-> d2,
              results |-> add_game_result(st.results, g.home_abbr, g.visitor_abbr,
                                          g.home_team_score, g.visitor_team_score),
              updated |-> st.updated + 1]

RECURSIVE ApiLoop(_, _)
ApiLoop(st, gs) ==
    IF gs = <<>> THEN st ELSE ApiLoop(ApiStep(st, Head(gs)), Tail(gs))

---------------------------------------------------------------------------
(* Inputs.                                                                 *)

NbaNames == { "Boston Celtics", "boston celtics", " BOS ", "la  lakers" }

SoccerNames == { "Team A", "Team B" }

RatingInputs == { 1600 * RatingScale }

\* final scores (home, away)
NbaScores == { <<110, 100>>, <<99, 101>> }

ScorePairs == { <<2, 0>>, <<0, 2>>, <<1, 1>> }

ApiGame(status, period_detail, home, visitor, hs, vs) ==
    [period_detail |-> period_detail, status |-> status,
     home_team_score |-> hs, visitor_team_score |-> vs,
     home_abbr |-> home, visitor_abbr |-> visitor]

ApiGames ==
    { ApiGame("Final", "Final", "BOS", "LAL", 110, 100),
      ApiGame("Final/OT", "", "LAL", "BOS", 99, 101),
      ApiGame("3rd Qtr", " Final/OT", "LAL", "BOS", 120, 121),
      ApiGame("Final", "", "BOS", "LAL", NoScore, NoScore),
      ApiGame("3rd Qtr", "3rd Qtr", "BOS", "LAL", 70, 64) }

RECURSIVE SeqsUpTo(_, _)
SeqsUpTo(S, n) ==
    IF n = 0 THEN { <<>> }
    ELSE LET shorter == SeqsUpTo(S, n - 1)
         IN  shorter \cup { Append(s, x) : s \in shorter, x \in S }

EmptyStore == [k \in {} |-> 0]

BANKROLL == 1000

InitialBankroll == BANKROLL * 100

---------------------------------------------------------------------------
(* The rating operations of a bot instance.                                *)

Init ==
    /\ sport \in {"nba", "soccer"}
    /\ ratings = EmptyStore
    /\ dbRatings = EmptyStore
    /\ gameResults = 0
    /\ games = 0
    /\ bets = <<>>
    /\ bankroll = InitialBankroll
    /\ settles = 0
    /\ call = [op |-> "init"]
    /\ ret = None
    /\ raised = ""
    /\ threads = << >>
    /\ ratings0 = EmptyStore

GetRating(team) ==
    /\ sport = "nba"
    /\ ratings' = NBA_get_rating_store(ratings, team)
    /\ ret' = NBA_get_rating(ratings, team)
    /\ raised' = ""
    /\ call' = [op |-> "get_rating", team |-> team]
    /\ UNCHANGED <<sport, threads, ratings0, dbRatings, gameResults, games, bets, bankroll, settles>>

UpdateRating(team, v) ==
    /\ sport = "nba"
    /\ ratings' = NBA_update_rating(ratings, team, v)
    /\ ret' = None
    /\ raised' = ""
    /\ call' = [op |-> "update_rating", team |-> team, rating |-> v]
    /\ UNCHANGED <<sport, threads, ratings0, dbRatings, gameResults, games, bets, bankroll, settles>>

UpdateRatingsAfterGame(home, away, home_won) ==
    /\ sport = "nba"
    /\ games < MaxGames
    /\ games' = games + 1
    /\ ratings' = NBA_update_ratings_after_game(ratings, home, away, home_won)
    /\ ret' = None
    /\ raised' = ""
    /\ call' = [home_won |-> home_won, home |-> home, op |-> "update_ratings_after_game",
                away |-> away]
    /\ UNCHANGED <<sport, threads, ratings0, dbRatings, gameResults, bets, bankroll, settles>>

\* NBABettingBot.update_ratings_from_result
UpdateRatingsFromResult(home, away, score, dated) ==
    /\ sport = "nba"
    /\ games < MaxGames
    /\ games' = games + 1
    /\ LET home_won == score[1] > score[2]
           r1 == NBA_update_ratings_after_game(ratings, home, away, home_won)
           d1 == save_team_rating(dbRatings, home, NBA_get_rating(r1, home))
           r2 == NBA_get_rating_store(r1, home)
           d2 == save_team_rating(d1, away, NBA_get_rating(r2, away))
           r3 == NBA_get_rating_store(r2, away)
       IN  /\ ratings' = r3
           /\ dbRatings' = d2
           /\ gameResults' = IF dated
                             THEN add_game_result(gameResults, home, away, score[1], score[2])
                             ELSE gameResults
    /\ ret' = None
    /\ raised' = ""
    /\ call' = [home |-> home, op |-> "update_ratings_from_result", away |-> away,
                score |-> score]
    /\ UNCHANGED <<sport, threads, ratings0, bets, bankroll, settles>>

\* NBABettingBot.update_ratings_from_api, the client having fetched gs
UpdateRatingsFromApi(gs) ==
    /\ sport = "nba"
    /\ games + Len(gs) <= MaxGames
    /\ LET st == ApiLoop([ratings |-> ratings, db |-> dbRatings,
                          results |-> gameResults, updated |-> 0], gs)
       IN  /\ ratings' = st.ratings
           /\ dbRatings' = st.db
           /\ gameResults' = st.results
           /\ games' = games + st.updated
           /\ ret' = st.updated
    /\ raised' = ""
    /\ call' = [op |-> "update_ratings_from_api", fetched |-> gs]
    /\ UNCHANGED <<sport, threads, ratings0, bets, bankroll, settles>>

\* NBABettingBot.__init__ on the same database: a new process
NewBot ==
    /\ sport = "nba"
    /\ ratings' = load_team_ratings(dbRatings)
    /\ bankroll' = InitialBankroll
    /\ ret' = None
    /\ raised' = ""
    /\ call' = [op |-> "new_bot"]
    /\ UNCHANGED <<sport, threads, ratings0, dbRatings, gameResults, games, bets, settles>>

SoccerGetRating(team) ==
    /\ sport = "soccer"
    /\ ratings' = Soccer_get_rating_store(ratings, team)
    /\ ret' = Soccer_get_rating(ratings, team)
    /\ raised' = ""
    /\ call' = [op |-> "get_rating", team |-> team]
    /\ UNCHANGED <<sport, threads, ratings0, dbRatings, gameResults, games, bets, bankroll, settles>>

SoccerUpdateRating(team, v) ==
    /\ sport = "soccer"
    /\ ratings' = Soccer_update_rating(ratings, team, v)
    /\ ret' = None
    /\ raised' = ""
    /\ call' = [op |-> "update_rating", team |-> team, rating |-> v]
    /\ UNCHANGED <<sport, threads, ratings0, dbRatings, gameResults, games, bets, bankroll, settles>>

UpdateRatingsAfterMatch(home, away, score) ==
    /\ sport = "soccer"
    /\ games < MaxGames
    /\ games' = games + 1
    /\ ratings' = update_ratings_after_match(ratings, home, away, score[1], score[2])
    /\ ret' = None
    /\ raised' = ""
    /\ call' = [home |-> home, op |-> "update_ratings_after_match", away |-> away,
                score |-> score]
    /\ UNCHANGED <<sport, threads, ratings0, dbRatings, gameResults, bets, bankroll, settles>>

Next ==
    \/ \E t \in NbaNames : GetRating(t)
    \/ \E t \in NbaNames, v \in RatingInputs : UpdateRating(t, v)
    \/ \E h \in NbaNames, a \in NbaNames, w \in BOOLEAN : UpdateRatingsAfterGame(h, a, w)
    \/ \E h \in NbaNames, a \in NbaNames, s \in NbaScores, d \in BOOLEAN :
           UpdateRatingsFromResult(h, a, s, d)
    \/ \E gs \in SeqsUpTo(ApiGames, MaxFetched) : UpdateRatingsFromApi(gs)
    \/ NewBot
    \/ \E t \in SoccerNames : SoccerGetRating(t)
    \/ \E t \in SoccerNames, v \in RatingInputs : SoccerUpdateRating(t, v)
    \/ \E h \in SoccerNames, a \in SoccerNames, s \in ScorePairs :
           UpdateRatingsAfterMatch(h, a, s)

Spec == Init /\ [][Next]_vars

---------------------------------------------------------------------------
(* Odds conversion and margin removal.  An optional argument (default None *)
(* in the code) is a sequence: << >> when omitted, <<v>> when given.       *)

\* 100 %
Hundred == 100 * Pct

\* round(x, n) of Python rounds a tie to the even neighbour
PyRound(a, b) ==
    LET q == a \div b
        r == a % b
    IN  IF 2 * r > b THEN q + 1
        ELSE IF 2 * r < b THEN q
        ELSE IF q % 2 = 0 THEN q ELSE q + 1

\* ml is a whole American moneyline
moneyline_to_implied_prob(ml) ==
    IF ml = 0 THEN 0
    ELSE IF ml > 0 THEN RoundDiv(100 * Hundred, ml + 100)
    ELSE RoundDiv(Abs(ml) * Hundred, Abs(ml) + 100)

decimal_to_implied_prob(odds) ==
    IF odds <= 100 THEN 0 ELSE RoundDiv(100 * Hundred, odds)

\* 100.0 / probability, 0.0 for a probability outside (0, 100); odds * 100
implied_prob_to_decimal(probability) ==
    IF probability <= 0 \/ probability >= Hundred THEN 0
    ELSE RoundDiv(100 * Hundred, probability)

\* -(p / (1 - p)) * 100 for p >= 0.5, ((1 - p) / p) * 100 below, 0.0 for a
\* probability outside (0, 100)
implied_prob_to_moneyline(probability) ==
    IF probability <= 0 \/ probability >= Hundred THEN 0
    ELSE IF 2 * probability >= Hundred
         THEN 0 - RoundDiv(probability * 100, Hundred - probability)
         ELSE RoundDiv((Hundred - probability) * 100, probability)

\* _ml_to_decimal takes its "else" branch for ml <= 0 and divides by abs(ml)
MlToDecimalRaises(ml) == ~(ml > 0) /\ Abs(ml) = 0

\* _ml_to_decimal with 100.0 / abs(ml) in both branches
ml_to_decimal_Inverted(ml) ==
    100 + RoundDiv(100 * 100, Abs(ml))

\* 1.0 + ml / 100.0, or 1.0 + 100.0 / abs(ml), where it does not raise
ml_to_decimal(ml) ==
    IF ml > 0 THEN 100 + ml ELSE 100 + RoundDiv(100 * 100, Abs(ml))

\* the 3-way rescaling without its "total <= 100.0" pass-through
remove_bookmaker_margin_AlwaysScale(home_prob, draw_prob, away_prob) ==
    LET total == home_prob + draw_prob + away_prob
    IN  IF total <= 0
        THEN [home |-> home_prob, away |-> away_prob, draw |-> draw_prob]
        ELSE [home |-> RoundDiv(home_prob * Hundred, total),
              away |-> RoundDiv(away_prob * Hundred, total),
              draw |-> RoundDiv(draw_prob * Hundred, total)]

\* the 2-way function with the 3-way function's "total <= 100.0" pass-through
remove_vig_two_way_PassThrough(home_prob, away_prob) ==
    LET total == home_prob + away_prob
    IN  IF total <= Hundred
        THEN [home |-> home_prob, away |-> away_prob]
        ELSE [home |-> RoundDiv(home_prob * Hundred, total),
              away |-> RoundDiv(away_prob * Hundred, total)]

remove_vig_two_way(home_prob, away_prob) ==
    LET total == home_prob + away_prob
    IN  IF total <= 0
        THEN [home |-> 50 * Pct, away |-> 50 * Pct]
        ELSE [home |-> RoundDiv(home_prob * Hundred, total),
              away |-> RoundDiv(away_prob * Hundred, total)]

\* soccer_bot.probability.normalize_probabilities; 33.33 is 3333
normalize_probabilities(home_prob, draw_prob, away_prob) ==
    LET total == home_prob + draw_prob + away_prob
    IN  IF total = 0
        THEN [home |-> 3333, away |-> 3333, draw |-> 3333]
        ELSE [home |-> RoundInt(home_prob * Hundred, total),
              away |-> RoundInt(away_prob * Hundred, total),
              draw |-> RoundInt(draw_prob * Hundred, total)]

remove_bookmaker_margin(home_prob, draw_prob, away_prob) ==
    LET total == home_prob + draw_prob + away_prob
    IN  IF total <= Hundred
        THEN [home |-> home_prob, away |-> away_prob, draw |-> draw_prob]
        ELSE [home |-> RoundDiv(home_prob * Hundred, total),
              away |-> RoundDiv(away_prob * Hundred, total),
              draw |-> RoundDiv(draw_prob * Hundred, total)]

---------------------------------------------------------------------------
(* Staking (nba_bot/betting.py).  A Kelly multiplier is in hundredths.     *)

KELLY_FRACTION == 50

MAX_STAKE_PERCENT == 5 * Pct

FLAT_STAKE_PERCENT == 150

\* MAX_STAKE_PERCENT / 100.0, in 1/Unit
MaxStakeFraction == RoundDiv(MAX_STAKE_PERCENT * Unit, Hundred)

\* (b * probability - q) / b * fraction, in 1/Unit
ScaledKelly(probability, odds, f) ==
    LET b == odds - 100
        q == Unit - probability
    IN  RoundInt((b * probability - 100 * q) * f, b * 100)

\* kelly_criterion without the cap at MAX_STAKE_PERCENT
kelly_criterion_NoCap(probability, odds, fraction) ==
    LET f == IF fraction = << >> THEN KELLY_FRACTION ELSE fraction[1]
    IN  IF probability <= 0 \/ probability >= Unit \/ odds <= 100 THEN 0
        ELSE IF ScaledKelly(probability, odds, f) <= 0 THEN 0
        ELSE ScaledKelly(probability, odds, f)

kelly_criterion(probability, odds, fraction) ==
    LET f == IF fraction = << >> THEN KELLY_FRACTION ELSE fraction[1]
    IN  IF probability <= 0 \/ probability >= Unit \/ odds <= 100 THEN 0
        ELSE IF ScaledKelly(probability, odds, f) <= 0 THEN 0
        ELSE Min(ScaledKelly(probability, odds, f), MaxStakeFraction)

\* soccer_bot: KELLY_FRACTION = 0.5 and MAX_STAKE_PERCENT = 5.0
SOCCER_KELLY_FRACTION == 50

SOCCER_MAX_STAKE_PERCENT == 5 * Pct

\* soccer_bot.betting.kelly_criterion
soccer_kelly_criterion(probability, odds, fraction) ==
    LET f == IF fraction = << >> THEN SOCCER_KELLY_FRACTION ELSE fraction[1]
        b == odds - 100
        q == Unit - probability
        kelly_fraction == RoundInt((b * probability - 100 * q) * f, b * 100)
        max_stake_frac == RoundDiv(SOCCER_MAX_STAKE_PERCENT * Unit, Hundred)
    IN  IF probability <= 0 \/ probability >= Unit \/ odds <= 100 THEN 0
        ELSE IF kelly_fraction <= 0 THEN 0
        ELSE Min(kelly_fraction, max_stake_frac)

\* the stake in 0.01 currency
calculate_bet_size(bank, probability, odds, fraction, use_flat) ==
    IF use_flat
    THEN RoundInt(bank * FLAT_STAKE_PERCENT, Hundred)
    ELSE RoundInt(bank * kelly_criterion(probability, odds, fraction), Unit)

calculate_edge(true_probability, market_probability) ==
    true_probability - market_probability

---------------------------------------------------------------------------
(* The NBA outcome predictor (NBAModel).                                   *)

HOME_COURT_ELO == 50

REST_ELO_PER_DAY == 15

B2B_PENALTY_ELO == 30

STAR_OUT_PENALTY_ELO == 50

\* MARKET_SHRINK_FACTOR = 0.3, in tenths
NBA_MARKET_SHRINK_FACTOR == 3

ShrinkScale == 5 * 2

NBA_MIN_PROBABILITY == 5 * Pct

NBA_MAX_PROBABILITY == 95 * Pct

MIN_FAVORITE_PROB == 62 * Pct

MIN_EDGE == 1 * Pct

\* the two reads of _compute_adjusted_ratings setting both teams to the
\* initial rating, in the store or not
AdjustedStore_Reinit(r, home_team, away_team) ==
    NBA_get_rating_store_Reinit(NBA_get_rating_store_Reinit(r, home_team), away_team)

\* the store after the two reads of _compute_adjusted_ratings
AdjustedStore(r, home_team, away_team) ==
    NBA_get_rating_store(NBA_get_rating_store(r, home_team), away_team)

\* the adjusted ratings without the back-to-back penalties
AdjustedRatings_NoB2B(home_rating, away_rating, c) ==
    LET adj_home == home_rating + HOME_COURT_ELO * RatingScale
                    + c.rest_diff * REST_ELO_PER_DAY * RatingScale
                    - (IF c.home_star_out THEN STAR_OUT_PENALTY_ELO * RatingScale ELSE 0)
        adj_away == away_rating
                    - (IF c.away_star_out THEN STAR_OUT_PENALTY_ELO * RatingScale ELSE 0)
    IN  [home_rating |-> home_rating, away_rating |-> away_rating,
         adj_home_rating |-> adj_home, adj_away_rating |-> adj_away,
         elo_diff |-> adj_home - adj_away,
         home_win_p_raw |-> expected_score(adj_home, adj_away)]

\* the adjusted ratings with a home back-to-back also taken off the rating
\* the expectation is computed from, but not off the reported difference
AdjustedRatings_HiddenB2B(home_rating, away_rating, c) ==
    LET adj_home == home_rating + HOME_COURT_ELO * RatingScale
                    + c.rest_diff * REST_ELO_PER_DAY * RatingScale
                    - (IF c.home_b2b THEN B2B_PENALTY_ELO * RatingScale ELSE 0)
                    - (IF c.home_star_out THEN STAR_OUT_PENALTY_ELO * RatingScale ELSE 0)
        adj_away == away_rating
                    - (IF c.away_b2b THEN B2B_PENALTY_ELO * RatingScale ELSE 0)
                    - (IF c.away_star_out THEN STAR_OUT_PENALTY_ELO * RatingScale ELSE 0)
        tired    == IF c.home_b2b THEN B2B_PENALTY_ELO * RatingScale ELSE 0
    IN  [home_rating |-> home_rating, away_rating |-> away_rating,
         adj_home_rating |-> adj_home, adj_away_rating |-> adj_away,
         elo_diff |-> adj_home - adj_away,
         home_win_p_raw |-> expected_score(adj_home - tired, adj_away)]

\* lines 195-219, from the two ratings read; c holds rest_diff and the four
\* context flags
AdjustedRatings(home_rating, away_rating, c) ==
    LET adj_home == home_rating + HOME_COURT_ELO * RatingScale
                    + c.rest_diff * REST_ELO_PER_DAY * RatingScale
                    - (IF c.home_b2b THEN B2B_PENALTY_ELO * RatingScale ELSE 0)
                    - (IF c.home_star_out THEN STAR_OUT_PENALTY_ELO * RatingScale ELSE 0)
        adj_away == away_rating
                    - (IF c.away_b2b THEN B2B_PENALTY_ELO * RatingScale ELSE 0)
                    - (IF c.away_star_out THEN STAR_OUT_PENALTY_ELO * RatingScale ELSE 0)
    IN  [home_rating |-> home_rating, away_rating |-> away_rating,
         adj_home_rating |-> adj_home, adj_away_rating |-> adj_away,
         elo_diff |-> adj_home - adj_away,
         home_win_p_raw |-> expected_score(adj_home, adj_away)]

compute_adjusted_ratings(r, home_team, away_team, c) ==
    AdjustedRatings(NBA_get_rating(r, home_team),
                    NBA_get_rating(NBA_get_rating_store(r, home_team), away_team), c)

Clamp(lo, hi, x) == Max(lo, Min(hi, x))

\* lines 263-271: the clamped and re-normalised pair, before calibration
RawProbs(home_win_p) ==
    LET home_prob == Clamp(NBA_MIN_PROBABILITY, NBA_MAX_PROBABILITY,
                           RoundDiv(home_win_p * Hundred, Unit))
        away_prob == Clamp(NBA_MIN_PROBABILITY, NBA_MAX_PROBABILITY,
                           RoundDiv((Unit - home_win_p) * Hundred, Unit))
        total == home_prob + away_prob
    IN  [home |-> RoundDiv(home_prob * Hundred, total),
         away |-> RoundDiv(away_prob * Hundred, total)]

\* (1 - shrink) * model_p + shrink * market_p, in 1/ShrinkScale of 0.01 %
Blend(shrink, model_p, market_p) ==
    (ShrinkScale - shrink) * model_p + shrink * market_p

\* the calibration without its re-normalisation
Calibrated_NoRenorm(raw_probs, m) ==
    [home |-> RoundDiv(Blend(NBA_MARKET_SHRINK_FACTOR, raw_probs.home, m.home), ShrinkScale),
     away |-> RoundDiv(Blend(NBA_MARKET_SHRINK_FACTOR, raw_probs.away, m.away), ShrinkScale)]

\* lines 275-288: shrink toward the market pair m, then re-normalise
Calibrated(raw_probs, m) ==
    LET cal_home == Blend(NBA_MARKET_SHRINK_FACTOR, raw_probs.home, m.home)
        cal_away == Blend(NBA_MARKET_SHRINK_FACTOR, raw_probs.away, m.away)
        cal_total == cal_home + cal_away
    IN  [home |-> RoundDiv(cal_home * Hundred, cal_total),
         away |-> RoundDiv(cal_away * Hundred, cal_total)]

WithDebug(probs, return_debug, adjusted) ==
    IF return_debug
    THEN [home |-> probs.home, away |-> probs.away, debug |-> adjusted]
    ELSE probs

\* lines 260-296, from the adjusted ratings
WinProbs(adjusted, market_probabilities, return_debug) ==
    IF market_probabilities # << >> /\ NBA_MARKET_SHRINK_FACTOR > 0
    THEN WithDebug(Calibrated(RawProbs(adjusted.home_win_p_raw), market_probabilities[1]),
                   return_debug, adjusted)
    ELSE WithDebug(RawProbs(adjusted.home_win_p_raw), return_debug, adjusted)

predict_win_prob(r, home_team, away_team, c, market_probabilities, return_debug) ==
    WinProbs(compute_adjusted_ratings(r, home_team, away_team, c),
             market_probabilities, return_debug)

---------------------------------------------------------------------------
(* NBABettingBot.analyze_game.                                             *)

\* the favourite-only recommendation without its "fav_edge >= MIN_EDGE" test
Recommendation_NoEdgeFilter(true_probs, market_probs, home_bet_odds, away_bet_odds, bank) ==
    LET fav_key == IF true_probs.home >= true_probs.away THEN "home" ELSE "away"
        fav_prob == true_probs[fav_key]
        fav_market_prob == market_probs[fav_key]
        fav_odds == IF fav_key = "home" THEN home_bet_odds ELSE away_bet_odds
        fav_edge == calculate_edge(fav_prob, fav_market_prob)
        bet_size == calculate_bet_size(bank, RoundDiv(fav_prob * Unit, Hundred),
                                       fav_odds, << >>, TRUE)
    IN  IF fav_prob >= MIN_FAVORITE_PROB
        THEN << [odds |-> fav_odds, true_probability |-> fav_prob, market_probability |-> fav_market_prob,
                 bet_type |-> fav_key, stake |-> bet_size,
                 edge |-> fav_edge,
                 potential_return |-> RoundInt(bet_size * fav_odds, 100),
                 potential_profit |-> RoundInt(bet_size * (fav_odds - 100), 100)] >>
        ELSE << >>

\* lines 148-171: << >> is recommendation = None
Recommendation(true_probs, market_probs, home_bet_odds, away_bet_odds, bank) ==
    LET fav_key == IF true_probs.home >= true_probs.away THEN "home" ELSE "away"
        fav_prob == true_probs[fav_key]
        fav_market_prob == market_probs[fav_key]
        fav_odds == IF fav_key = "home" THEN home_bet_odds ELSE away_bet_odds
        fav_edge == calculate_edge(fav_prob, fav_market_prob)
        bet_size == calculate_bet_size(bank, RoundDiv(fav_prob * Unit, Hundred),
                                       fav_odds, << >>, TRUE)
    IN  IF fav_prob >= MIN_FAVORITE_PROB /\ fav_edge >= MIN_EDGE
        THEN << [odds |-> fav_odds, true_probability |-> fav_prob, market_probability |-> fav_market_prob,
                 bet_type |-> fav_key, stake |-> bet_size,
                 edge |-> fav_edge,
                 potential_return |-> RoundInt(bet_size * fav_odds, 100),
                 potential_profit |-> RoundInt(bet_size * (fav_odds - 100), 100)] >>
        ELSE << >>

\* whether the call gives both moneylines, or else both decimal odds
HasMoneylines(a) == a.home_ml # << >> /\ a.away_ml # << >>

HasDecimalOdds(a) == a.home_odds # << >> /\ a.away_odds # << >>

\* lines 112-127: the market pair and the odds a bet would be placed at
MarketProbs(a) ==
    IF HasMoneylines(a)
    THEN remove_vig_two_way(moneyline_to_implied_prob(a.home_ml[1]),
                            moneyline_to_implied_prob(a.away_ml[1]))
    ELSE remove_vig_two_way(decimal_to_implied_prob(a.home_odds[1]),
                            decimal_to_implied_prob(a.away_odds[1]))

HomeBetOdds(a) ==
    IF HasMoneylines(a) THEN ml_to_decimal(a.home_ml[1]) ELSE a.home_odds[1]

AwayBetOdds(a) ==
    IF HasMoneylines(a) THEN ml_to_decimal(a.away_ml[1]) ELSE a.away_odds[1]

\* lines 142-195, from the market pair, the prediction and the store r1 the
\* prediction left
Analysis(a, bank, market_probs, predicted, r1) ==
    [home_team |-> a.home_team,
     away_team |-> a.away_team,
     debug |-> IF a.debug THEN <<predicted.debug>> ELSE << >>,
     market_probabilities |-> market_probs,
     true_probabilities |-> [home |-> predicted.home, away |-> predicted.away],
     edges |-> [home |-> calculate_edge(predicted.home, market_probs.home),
                away |-> calculate_edge(predicted.away, market_probs.away)],
     team_ratings |-> [home |-> PyRound(NBA_get_rating(r1, a.home_team), RatingScale),
                       away |-> PyRound(NBA_get_rating(r1, a.away_team), RatingScale)],
     recommendation |-> Recommendation(predicted, market_probs, HomeBetOdds(a),
                                       AwayBetOdds(a), bank),
     calibration_applied |-> a.use_calibration]

\* lines 112-125: the exception the odds parsing raises, "" when it raises none
AnalyzeRaises(a) ==
    IF HasMoneylines(a)
    THEN IF MlToDecimalRaises(a.home_ml[1]) \/ MlToDecimalRaises(a.away_ml[1])
         THEN "ZeroDivisionError"
         ELSE ""
    ELSE IF HasDecimalOdds(a) THEN "" ELSE "ValueError"

\* a holds the arguments; the result is the exception's name when one is raised
analyze_game(r, bank, a) ==
    IF AnalyzeRaises(a) # "" THEN AnalyzeRaises(a)
    ELSE Analysis(a, bank, MarketProbs(a),
                  predict_win_prob(r, a.home_team, a.away_team, a.context,
                                   IF a.use_calibration THEN <<MarketProbs(a)>> ELSE << >>,
                                   a.debug),
                  AdjustedStore(r, a.home_team, a.away_team))

---------------------------------------------------------------------------
(* The soccer outcome predictor (PredictionModel).  A form factor is in    *)
(* tenths.                                                                 *)

HOME_ADVANTAGE_ELO == 70

\* MARKET_SHRINK_FACTOR = 0.4, in tenths
SOCCER_MARKET_SHRINK_FACTOR == 4

SOCCER_MIN_PROBABILITY == 5 * Pct

SOCCER_MAX_PROBABILITY == 85 * Pct

elo_to_win_probability(rating_a, rating_b) ==
    LET d == RoundInt(rating_b - rating_a, RatingScale)
    IN  RoundDiv(Unit * PowScale, PowScale + Pow10Elo(d))

\* lines 134-152: the three clamped probabilities, before calibration
SoccerRawProbs(home_win_expectation) ==
    LET gap == Abs(home_win_expectation - Unit \div 2)
        fav_prob == 35 * Pct + RoundDiv(gap * 60 * Pct, Unit)
        draw_prob == 25 * Pct - RoundDiv(25 * Pct * gap, 2 * Unit)
        dog_prob == Hundred - fav_prob - draw_prob
        home_prob == IF home_win_expectation > Unit \div 2 THEN fav_prob ELSE dog_prob
        away_prob == IF home_win_expectation > Unit \div 2 THEN dog_prob ELSE fav_prob
    IN  [home |-> Clamp(SOCCER_MIN_PROBABILITY, SOCCER_MAX_PROBABILITY, home_prob),
         away |-> Clamp(SOCCER_MIN_PROBABILITY, SOCCER_MAX_PROBABILITY, away_prob),
         draw |-> Clamp(10 * Pct, 40 * Pct, draw_prob)]

\* lines 156-163: shrink toward the market triple m
SoccerCalibrated(raw_probs, m) ==
    [home |-> RoundDiv(Blend(SOCCER_MARKET_SHRINK_FACTOR, raw_probs.home, m.home),
                       ShrinkScale),
     away |-> RoundDiv(Blend(SOCCER_MARKET_SHRINK_FACTOR, raw_probs.away, m.away),
                       ShrinkScale),
     draw |-> RoundDiv(Blend(SOCCER_MARKET_SHRINK_FACTOR, raw_probs.draw, m.draw),
                       ShrinkScale)]

\* the store after the two reads of predict_match_probabilities
SoccerReadStore(r, home_team, away_team) ==
    Soccer_get_rating_store(Soccer_get_rating_store(r, home_team), away_team)

\* lines 118-130: home_win_expectation from the two ratings read; forms are
\* in tenths
HomeWinExpectation(home_rating, away_rating, f) ==
    LET goal_diff_impact == Max(0 - 5, Min(5, f.home_goal_diff - f.away_goal_diff)) * 5
        adjusted_home_rating == home_rating + HOME_ADVANTAGE_ELO * RatingScale
                                + f.home_form * 10 * RatingScale
                                + goal_diff_impact * RatingScale
        adjusted_away_rating == away_rating + f.away_form * 10 * RatingScale
    IN  elo_to_win_probability(adjusted_home_rating, adjusted_away_rating)

\* lines 118-165, from the two ratings read; f holds home_form, away_form,
\* home_goal_diff, away_goal_diff
MatchProbabilities(home_rating, away_rating, f, market_probabilities) ==
    LET home_win_expectation == HomeWinExpectation(home_rating, away_rating, f)
    IN  IF market_probabilities # << >> /\ SOCCER_MARKET_SHRINK_FACTOR > 0
        THEN SoccerCalibrated(SoccerRawProbs(home_win_expectation), market_probabilities[1])
        ELSE SoccerRawProbs(home_win_expectation)

predict_match_probabilities(r, home_team, away_team, f, market_probabilities) ==
    MatchProbabilities(Soccer_get_rating(r, home_team),
                       Soccer_get_rating(Soccer_get_rating_store(r, home_team), away_team),
                       f, market_probabilities)

---------------------------------------------------------------------------
(* Bet bookkeeping (NBADatabase, NBABettingBot.place_bet / settle_bet).    *)
(* Row i of the bets table has id i; a result not yet recorded is "".      *)

add_bet(rows, bet_type, odds, stake) ==
    Append(rows, [odds |-> odds, bet_type |-> bet_type, stake |-> stake,
                  id |-> Len(rows) + 1, result |-> "", profit_loss |-> 0])

update_bet_result(rows, bet_id, result, profit_loss) ==
    [i \in DOMAIN rows |->
        IF rows[i].id = bet_id
        THEN [rows[i] EXCEPT !.result = result, !.profit_loss = profit_loss]
        ELSE rows[i]]

get_all_bets(rows) == rows

\* bet['stake'] * (bet['odds'] - 1), -bet['stake'], or 0.0
ProfitLoss(bet, result) ==
    IF result = "win" THEN RoundInt(bet.stake * (bet.odds - 100), 100)
    ELSE IF result = "loss" THEN 0 - bet.stake
    ELSE 0

\* settle_bet keeping the stake of a pushed bet
SettledBankroll_PushKeepsStake(bank, bet, result) ==
    IF result = "win" THEN bank + bet.stake + ProfitLoss(bet, result)
    ELSE bank

\* the bankroll after settle_bet has found the bet
SettledBankroll(bank, bet, result) ==
    IF result = "win" THEN bank + bet.stake + ProfitLoss(bet, result)
    ELSE IF result = "loss" THEN bank
    ELSE bank + bet.stake

---------------------------------------------------------------------------
(* Inputs of the conversions, the staking and the predictors.              *)

MaxBets == 2

MaxSettles == 3

\* implied probabilities, in 0.01 %
ImpliedProbs == { 0, 25 * Pct, 30 * Pct, 4348, 5238, 60 * Pct, 90 * Pct }

Moneylines == { 0 - 150, 130, 0 - 400, 300, 0 - 110, 0, 100, 0 - 100, 250, 0 - 1000 }

\* probabilities handed to the conversions back to odds, in 0.01 %
ConversionProbs == { 0 - 5 * Pct, 0, 1, 20 * Pct, 4348, 50 * Pct, 60 * Pct, 9999, Hundred, 120 * Pct }

DecimalOdds == { 50, 100, 150, 167, 200, 230, 350 }

KellyProbabilities == { 0 - 1000, 0, 2000, 5000, 5500, 6000, Unit, 12000 }

KellyFractions == { << >>, <<0>>, <<25>>, <<50>>, <<100>>, <<0 - 50>> }

PredictNames == { "Boston Celtics", "Los Angeles Lakers" }

PredictRatings == { 1200 * RatingScale, 1900 * RatingScale }

\* (home_team, away_team) of the games analysed
Fixtures ==
    { <<"Boston Celtics", "Los Angeles Lakers">>,
      <<"Los Angeles Lakers", "Boston Celtics">> }

Context(rest_diff, home_b2b, away_b2b, home_star_out, away_star_out) ==
    [rest_diff |-> rest_diff, home_star_out |-> home_star_out, away_star_out |-> away_star_out,
     home_b2b |-> home_b2b, away_b2b |-> away_b2b]

Contexts ==
    { Context(0, FALSE, FALSE, FALSE, FALSE),
      Context(2, FALSE, TRUE, FALSE, TRUE),
      Context(0 - 1, TRUE, FALSE, TRUE, FALSE),
      Context(1, TRUE, TRUE, FALSE, FALSE),
      Context(0, FALSE, FALSE, TRUE, TRUE) }

AnalyzeContexts ==
    { Context(0, FALSE, FALSE, FALSE, FALSE),
      Context(2, FALSE, TRUE, FALSE, TRUE) }

\* market_probabilities of a direct call: fair, with overround, below 100, zero
MarketPairs ==
    { << >>,
      << [home |-> 60 * Pct, away |-> 40 * Pct] >>,
      << [home |-> 60 * Pct, away |-> 45 * Pct] >>,
      << [home |-> 20 * Pct, away |-> 30 * Pct] >>,
      << [home |-> 0, away |-> 0] >> }

MarketTriples ==
    { << >>,
      << [home |-> 45 * Pct, away |-> 30 * Pct, draw |-> 25 * Pct] >>,
      << [home |-> 30 * Pct, away |-> 30 * Pct, draw |-> 30 * Pct] >>,
      << [home |-> 2857, away |-> 2857, draw |-> 2857] >> }

Forms ==
    { [home_goal_diff |-> 0, away_goal_diff |-> 0, home_form |-> 0, away_form |-> 0],
      [home_goal_diff |-> 9, away_goal_diff |-> 0 - 2, home_form |-> 5, away_form |-> 0 - 3],
      [home_goal_diff |-> 0 - 3, away_goal_diff |-> 4, home_form |-> 0 - 10, away_form |-> 10],
      [home_goal_diff |-> 0, away_goal_diff |-> 0, home_form |-> 0 - 3, away_form |-> 4],
      [home_goal_diff |-> 0, away_goal_diff |-> 0, home_form |-> 0 - 3, away_form |-> 3] }

OddsInputs ==
    { [home_ml |-> <<0 - 150>>, away_ml |-> <<130>>, home_odds |-> << >>, away_odds |-> << >>],
      [home_ml |-> <<130>>, away_ml |-> <<0 - 150>>, home_odds |-> << >>, away_odds |-> << >>],
      [home_ml |-> <<0 - 400>>, away_ml |-> <<300>>, home_odds |-> << >>, away_odds |-> << >>],
      [home_ml |-> <<300>>, away_ml |-> <<0 - 400>>, home_odds |-> << >>, away_odds |-> << >>],
      [home_ml |-> << >>, away_ml |-> << >>, home_odds |-> <<167>>, away_odds |-> <<230>>],
      [home_ml |-> << >>, away_ml |-> << >>, home_odds |-> <<350>>, away_odds |-> <<125>>],
      [home_ml |-> <<0 - 150>>, away_ml |-> << >>, home_odds |-> << >>, away_odds |-> <<230>>],
      [home_ml |-> <<0>>, away_ml |-> <<130>>, home_odds |-> << >>, away_odds |-> << >>],
      [home_ml |-> << >>, away_ml |-> << >>, home_odds |-> <<50>>, away_odds |-> <<230>>],
      [home_ml |-> << >>, away_ml |-> << >>, home_odds |-> <<230>>, away_odds |-> <<100>>] }

GameArgs(home_team, away_team, o, c, use_calibration, debug) ==
    [home_team |-> home_team, away_team |-> away_team,
     debug |-> debug, home_ml |-> o.home_ml,
     away_ml |-> o.away_ml, home_odds |-> o.home_odds,
     away_odds |-> o.away_odds, use_calibration |-> use_calibration, context |-> c]

Stakes == { 1000, 1500 }

BetOdds == { 150, 200 }

Results == { "win", "loss", "push" }

---------------------------------------------------------------------------
(* The conversions and the staking, called on their own.                   *)

InitPure == Init

MoneylineToImpliedProb(ml) ==
    /\ sport = "nba"
    /\ ret' = moneyline_to_implied_prob(ml)
    /\ raised' = ""
    /\ call' = [op |-> "moneyline_to_implied_prob", ml |-> ml]
    /\ UNCHANGED <<sport, threads, ratings0, ratings, dbRatings, gameResults, games, bets, bankroll, settles>>

DecimalToImpliedProb(odds) ==
    /\ sport = "nba"
    /\ ret' = decimal_to_implied_prob(odds)
    /\ raised' = ""
    /\ call' = [op |-> "decimal_to_implied_prob", odds |-> odds]
    /\ UNCHANGED <<sport, threads, ratings0, ratings, dbRatings, gameResults, games, bets, bankroll, settles>>

ImpliedProbToDecimal(probability) ==
    /\ sport = "nba"
    /\ ret' = implied_prob_to_decimal(probability)
    /\ raised' = ""
    /\ call' = [op |-> "implied_prob_to_decimal", probability |-> probability]
    /\ UNCHANGED <<sport, threads, ratings0, ratings, dbRatings, gameResults, games, bets, bankroll, settles>>

ImpliedProbToMoneyline(probability) ==
    /\ sport = "nba"
    /\ ret' = implied_prob_to_moneyline(probability)
    /\ raised' = ""
    /\ call' = [op |-> "implied_prob_to_moneyline", probability |-> probability]
    /\ UNCHANGED <<sport, threads, ratings0, ratings, dbRatings, gameResults, games, bets, bankroll, settles>>

MlToDecimal(ml) ==
    /\ sport = "nba"
    /\ ret' = IF MlToDecimalRaises(ml) THEN None ELSE ml_to_decimal(ml)
    /\ raised' = IF MlToDecimalRaises(ml) THEN "ZeroDivisionError" ELSE ""
    /\ call' = [op |-> "ml_to_decimal", ml |-> ml]
    /\ UNCHANGED <<sport, threads, ratings0, ratings, dbRatings, gameResults, games, bets, bankroll, settles>>

RemoveVigTwoWay(home_prob, away_prob) ==
    /\ sport = "nba"
    /\ ret' = remove_vig_two_way(home_prob, away_prob)
    /\ raised' = ""
    /\ call' = [op |-> "remove_vig_two_way", home_prob |-> home_prob,
                away_prob |-> away_prob]
    /\ UNCHANGED <<sport, threads, ratings0, ratings, dbRatings, gameResults, games, bets, bankroll, settles>>

RemoveBookmakerMargin(home_prob, draw_prob, away_prob) ==
    /\ sport = "soccer"
    /\ ret' = remove_bookmaker_margin(home_prob, draw_prob, away_prob)
    /\ raised' = ""
    /\ call' = [op |-> "remove_bookmaker_margin", home_prob |-> home_prob,
                draw_prob |-> draw_prob, away_prob |-> away_prob]
    /\ UNCHANGED <<sport, threads, ratings0, ratings, dbRatings, gameResults, games, bets, bankroll, settles>>

NormalizeProbabilities(home_prob, draw_prob, away_prob) ==
    /\ sport = "soccer"
    /\ ret' = normalize_probabilities(home_prob, draw_prob, away_prob)
    /\ raised' = ""
    /\ call' = [op |-> "normalize_probabilities", home_prob |-> home_prob,
                draw_prob |-> draw_prob, away_prob |-> away_prob]
    /\ UNCHANGED <<sport, threads, ratings0, ratings, dbRatings, gameResults, games, bets, bankroll, settles>>

KellyCriterion(probability, odds, fraction) ==
    /\ sport = "nba"
    /\ ret' = kelly_criterion(probability, odds, fraction)
    /\ raised' = ""
    /\ call' = [op |-> "kelly_criterion", odds |-> odds, probability |-> probability,
                fraction |-> fraction]
    /\ UNCHANGED <<sport, threads, ratings0, ratings, dbRatings, gameResults, games, bets, bankroll, settles>>

SoccerKellyCriterion(probability, odds, fraction) ==
    /\ sport = "soccer"
    /\ ret' = soccer_kelly_criterion(probability, odds, fraction)
    /\ raised' = ""
    /\ call' = [op |-> "soccer_kelly_criterion", odds |-> odds, probability |-> probability,
                fraction |-> fraction]
    /\ UNCHANGED <<sport, threads, ratings0, ratings, dbRatings, gameResults, games, bets, bankroll, settles>>

NextPure ==
    \/ \E ml \in Moneylines : MoneylineToImpliedProb(ml)
    \/ \E o \in DecimalOdds : DecimalToImpliedProb(o)
    \/ \E p \in ConversionProbs : ImpliedProbToDecimal(p)
    \/ \E p \in ConversionProbs : ImpliedProbToMoneyline(p)
    \/ \E ml \in Moneylines : MlToDecimal(ml)
    \/ \E h \in ImpliedProbs, a \in ImpliedProbs : RemoveVigTwoWay(h, a)
    \/ \E h \in ImpliedProbs, d \in ImpliedProbs, a \in ImpliedProbs :
           RemoveBookmakerMargin(h, d, a)
    \/ \E h \in ImpliedProbs, d \in ImpliedProbs, a \in ImpliedProbs :
           NormalizeProbabilities(h, d, a)
    \/ \E p \in KellyProbabilities, o \in DecimalOdds, f \in KellyFractions :
           KellyCriterion(p, o, f)
    \/ \E p \in KellyProbabilities, o \in DecimalOdds, f \in KellyFractions :
           SoccerKellyCriterion(p, o, f)

SpecPure == InitPure /\ [][NextPure]_vars

---------------------------------------------------------------------------
(* The predictors and the game analysis, on a store set by update_rating.  *)

InitPredict == Init

PredictWinProb(home_team, away_team, c, market_probabilities, return_debug) ==
    /\ sport = "nba"
    /\ ratings' = AdjustedStore(ratings, home_team, away_team)
    /\ ret' = predict_win_prob(ratings, home_team, away_team, c, market_probabilities,
                               return_debug)
    /\ raised' = ""
    /\ call' = [home_team |-> home_team, away_team |-> away_team,
                op |-> "predict_win_prob", return_debug |-> return_debug,
                market_probabilities |-> market_probabilities,
                context |-> c]
    /\ UNCHANGED <<sport, threads, ratings0, dbRatings, gameResults, games, bets, bankroll, settles>>

\* analyze_game reading both ratings before it looks at the odds
AnalyzeGame_EagerInit(a) ==
    /\ sport = "nba"
    /\ ratings' = AdjustedStore(ratings, a.home_team, a.away_team)
    /\ ret' = analyze_game(ratings, bankroll, a)
    /\ raised' = AnalyzeRaises(a)
    /\ call' = [op |-> "analyze_game", args |-> a]
    /\ UNCHANGED <<sport, threads, ratings0, dbRatings, gameResults, games, bets, bankroll, settles>>

AnalyzeGame(a) ==
    /\ sport = "nba"
    /\ ratings' = IF AnalyzeRaises(a) = ""
                  THEN AdjustedStore(ratings, a.home_team, a.away_team)
                  ELSE ratings
    /\ ret' = analyze_game(ratings, bankroll, a)
    /\ raised' = AnalyzeRaises(a)
    /\ call' = [op |-> "analyze_game", args |-> a]
    /\ UNCHANGED <<sport, threads, ratings0, dbRatings, gameResults, games, bets, bankroll, settles>>

PredictMatchProbabilities(home_team, away_team, f, market_probabilities) ==
    /\ sport = "soccer"
    /\ ratings' = SoccerReadStore(ratings, home_team, away_team)
    /\ ret' = predict_match_probabilities(ratings, home_team, away_team, f,
                                          market_probabilities)
    /\ raised' = ""
    /\ call' = [home_team |-> home_team, away_team |-> away_team,
                op |-> "predict_match_probabilities", market_probabilities |-> market_probabilities,
                form |-> f]
    /\ UNCHANGED <<sport, threads, ratings0, dbRatings, gameResults, games, bets, bankroll, settles>>

NextPredict ==
    \/ \E t \in PredictNames, v \in PredictRatings : UpdateRating(t, v)
    \/ \E g \in Fixtures, c \in Contexts, m \in MarketPairs, d \in BOOLEAN :
           PredictWinProb(g[1], g[2], c, m, d)
    \/ \E g \in Fixtures, o \in OddsInputs, c \in AnalyzeContexts, u \in BOOLEAN,
          d \in BOOLEAN : AnalyzeGame(GameArgs(g[1], g[2], o, c, u, d))
    \/ \E t \in SoccerNames, v \in PredictRatings : SoccerUpdateRating(t, v)
    \/ \E h \in SoccerNames, a \in SoccerNames, f \in Forms, m \in MarketTriples :
           PredictMatchProbabilities(h, a, f, m)

SpecPredict == InitPredict /\ [][NextPredict]_vars

---------------------------------------------------------------------------
(* Placing and settling bets (the NBA bot).                                *)

InitBets ==
    /\ Init
    /\ sport = "nba"

PlaceBet(bet_type, odds, stake) ==
    /\ sport = "nba"
    /\ Len(bets) < MaxBets
    /\ bets' = add_bet(bets, bet_type, odds, stake)
    /\ bankroll' = bankroll - stake
    /\ ret' = Len(bets) + 1
    /\ raised' = ""
    /\ call' = [op |-> "place_bet", odds |-> odds, bet_type |-> bet_type,
                stake |-> stake]
    /\ UNCHANGED <<sport, threads, ratings0, ratings, dbRatings, gameResults, games, settles>>

SettleBet(bet_id, result) ==
    /\ sport = "nba"
    /\ settles < MaxSettles
    /\ settles' = settles + 1
    /\ LET found == SelectSeq(get_all_bets(bets), LAMBDA b : b.id = bet_id)
       IN  IF found = << >>
           THEN UNCHANGED <<bets, bankroll>>
           ELSE /\ bankroll' = SettledBankroll(bankroll, found[1], result)
                /\ bets' = update_bet_result(bets, bet_id, result,
                                             ProfitLoss(found[1], result))
    /\ ret' = None
    /\ raised' = ""
    /\ call' = [op |-> "settle_bet", result |-> result, bet_id |-> bet_id]
    /\ UNCHANGED <<sport, threads, ratings0, ratings, dbRatings, gameResults, games>>

NextBets ==
    \/ \E t \in {"home", "away"}, o \in BetOdds, s \in Stakes : PlaceBet(t, o, s)
    \/ \E i \in 1..(MaxBets + 1), r \in Results : SettleBet(i, r)

SpecBets == InitBets /\ [][NextBets]_vars

\* The same bot when its caller settles no bet a second time.
SettleOnce(bet_id, result) ==
    /\ \A i \in DOMAIN bets : bets[i].id = bet_id => bets[i].result = ""
    /\ SettleBet(bet_id, result)

NextBetsOnce ==
    \/ \E t \in {"home", "away"}, o \in BetOdds, s \in Stakes : PlaceBet(t, o, s)
    \/ \E i \in 1..(MaxBets + 1), r \in Results : SettleOnce(i, r)

SpecBetsOnce == InitBets /\ [][NextBetsOnce]_vars

---------------------------------------------------------------------------
(* Two threads running update_ratings_after_game on one NBATeamRatings.    *)
(* A step is one access to the shared dict: the membership test, the       *)
(* insertion and the read of get_rating, and the write of update_rating.   *)

Threads == {1, 2}

ThreadGames ==
    { [home_won |-> TRUE, home |-> "BOS", away |-> "la  lakers"],
      [home_won |-> FALSE, home |-> "nola", away |-> "Team A"],
      [home_won |-> TRUE, home |-> "lakers", away |-> "pelicans"] }

ThreadStores == { EmptyStore, [k \in {"Boston Celtics"} |-> 1600 * RatingScale] }

\* home_key / away_key as get_rating and update_rating file them
ThreadKey(name) == normalize_team_name(normalize_team_name(name))

ThreadStart(g) ==
    [home_won |-> g.home_won, home_rating |-> 0, away_rating |-> 0, home |-> g.home,
     away |-> g.away, pc |-> "home_test", raced |-> FALSE]

InitThreads ==
    /\ sport = "nba"
    /\ ratings \in ThreadStores
    /\ ratings0 = ratings
    /\ threads \in [Threads -> { ThreadStart(g) : g \in ThreadGames }]
    /\ dbRatings = EmptyStore
    /\ gameResults = 0
    /\ games = 0
    /\ bets = << >>
    /\ bankroll = InitialBankroll
    /\ settles = 0
    /\ call = [op |-> "init"]
    /\ ret = None
    /\ raised = ""

\* the key thread t is reading
ThreadReadKey(t) ==
    IF threads[t].pc \in {"home_test", "home_init", "home_read"}
    THEN ThreadKey(threads[t].home) ELSE ThreadKey(threads[t].away)

\* thread t takes a step while the other thread is inside its call
ThreadRaces(t) ==
    \/ threads[t].raced
    \/ \E u \in Threads \ {t} : threads[u].pc \notin {"home_test", "done"}

ThreadStep(t, local) ==
    /\ threads' = [threads EXCEPT ![t] = local]
    /\ ret' = None
    /\ raised' = ""
    /\ call' = [op |-> "thread_step", thread |-> t]
    /\ UNCHANGED <<sport, dbRatings, gameResults, games, bets, bankroll, settles, ratings0>>

\* get_rating: "if key not in self.ratings"
ThreadTest(t) ==
    /\ threads[t].pc \in {"home_test", "away_test"}
    /\ LET absent == ThreadReadKey(t) \notin DOMAIN ratings
           next   == IF threads[t].pc = "home_test"
                     THEN (IF absent THEN "home_init" ELSE "home_read")
                     ELSE (IF absent THEN "away_init" ELSE "away_read")
       IN  ThreadStep(t, [threads[t] EXCEPT !.pc = next, !.raced = ThreadRaces(t)])
    /\ UNCHANGED ratings

\* get_rating: "self.ratings[key] = float(self.initial_rating)"
ThreadInit(t) ==
    /\ threads[t].pc \in {"home_init", "away_init"}
    /\ ratings' = Put(ratings, ThreadReadKey(t), InitialRating)
    /\ ThreadStep(t, [threads[t] EXCEPT
                         !.pc = IF threads[t].pc = "home_init" THEN "home_read" ELSE "away_read",
                         !.raced = ThreadRaces(t)])

\* get_rating: "return self.ratings[key]"
ThreadRead(t) ==
    /\ threads[t].pc \in {"home_read", "away_read"}
    /\ ThreadStep(t, IF threads[t].pc = "home_read"
                     THEN [threads[t] EXCEPT !.pc = "away_test",
                                             !.home_rating = ratings[ThreadReadKey(t)],
                                             !.raced = ThreadRaces(t)]
                     ELSE [threads[t] EXCEPT !.pc = "write_home",
                                             !.away_rating = ratings[ThreadReadKey(t)],
                                             !.raced = ThreadRaces(t)])
    /\ UNCHANGED ratings

\* "self.update_rating(home_key, home_rating + self.k_factor * (...))"
ThreadWriteHome(t) ==
    /\ threads[t].pc = "write_home"
    /\ LET home_expected == expected_score(threads[t].home_rating, threads[t].away_rating)
           home_actual   == IF threads[t].home_won THEN Unit ELSE 0
       IN  ratings' = NBA_update_rating(ratings, normalize_team_name(threads[t].home),
                          threads[t].home_rating
                              + EloDelta(NBA_ELO_K_FACTOR, home_actual, home_expected))
    /\ ThreadStep(t, [threads[t] EXCEPT !.pc = "write_away", !.raced = ThreadRaces(t)])

\* "self.update_rating(away_key, away_rating + self.k_factor * (...))"
ThreadWriteAway(t) ==
    /\ threads[t].pc = "write_away"
    /\ LET home_expected == expected_score(threads[t].home_rating, threads[t].away_rating)
           away_expected == Unit - home_expected
           away_actual   == IF threads[t].home_won THEN 0 ELSE Unit
       IN  ratings' = NBA_update_rating(ratings, normalize_team_name(threads[t].away),
                          threads[t].away_rating
                              + EloDelta(NBA_ELO_K_FACTOR, away_actual, away_expected))
    /\ ThreadStep(t, [threads[t] EXCEPT !.pc = "done", !.raced = ThreadRaces(t)])

NextThreads ==
    \/ \E t \in Threads : ThreadTest(t)
    \/ \E t \in Threads : ThreadInit(t)
    \/ \E t \in Threads : ThreadRead(t)
    \/ \E t \in Threads : ThreadWriteHome(t)
    \/ \E t \in Threads : ThreadWriteAway(t)

SpecThreads == InitThreads /\ [][NextThreads]_vars

---------------------------------------------------------------------------
(* NBABettingBot._import_ratings_from_csv, and the operations that change  *)
(* ratings and persist them.                                               *)

MaxCsvRows == 2

\* the franchises of the alias table above that are in CURRENT_NBA_TEAMS
CURRENT_NBA_TEAMS == { "Boston Celtics", "Los Angeles Lakers", "New Orleans Pelicans" }

is_current_nba_team(name) == normalize_team_name(name) \in CURRENT_NBA_TEAMS

\* a row of the file: team is the team_name/team cell, elo the number in the
\* elo/rating cell, << >> when the cell is blank or not a number
CsvRow(team, elo) == [team |-> team, elo |-> elo]

CsvRows ==
    { CsvRow(" BOS ", << 1600 * RatingScale >>),
      CsvRow("la  lakers", << 1450 * RatingScale >>),
      CsvRow("boston celtics", << 1700 * RatingScale >>),
      CsvRow("BOS", << >>) }

\* one pass of the loop body over st = [ratings, db, count]
CsvStep(st, row) ==
    LET team == Intern(Strip(Spell[row.team]))
    IN  IF team = "" \/ row.elo = << >> \/ ~is_current_nba_team(team) THEN st
        ELSE [ratings |-> NBA_update_rating(st.ratings, team, row.elo[1]),
              db      |-> save_team_rating(st.db, team, row.elo[1]),
              count   |-> st.count + 1]

RECURSIVE CsvLoop(_, _)
CsvLoop(st, rows) ==
    IF rows = << >> THEN st ELSE CsvLoop(CsvStep(st, Head(rows)), Tail(rows))

ImportRatingsFromCsv(rows) ==
    /\ sport = "nba"
    /\ LET st == CsvLoop([ratings |-> ratings, db |-> dbRatings, count |-> 0], rows)
       IN  /\ ratings' = st.ratings
           /\ dbRatings' = st.db
           /\ ret' = st.count
    /\ raised' = ""
    /\ call' = [rows |-> rows, op |-> "import_ratings_from_csv"]
    /\ UNCHANGED <<sport, threads, ratings0, gameResults, games, bets, bankroll, settles>>

InitPersist ==
    /\ Init
    /\ sport = "nba"

NextPersist ==
    \/ \E h \in NbaNames, a \in NbaNames, s \in NbaScores, d \in BOOLEAN :
           UpdateRatingsFromResult(h, a, s, d)
    \/ \E gs \in SeqsUpTo(ApiGames, MaxFetched) : UpdateRatingsFromApi(gs)
    \/ \E rows \in SeqsUpTo(CsvRows, MaxCsvRows) : ImportRatingsFromCsv(rows)

SpecPersist == InitPersist /\ [][NextPersist]_vars

---------------------------------------------------------------------------
(* A bot that sets ratings, places and settles bets, and analyses games.   *)

AnalyzeOdds ==
    { [home_ml |-> <<0 - 400>>, away_ml |-> <<300>>, home_odds |-> << >>, away_odds |-> << >>],
      [home_ml |-> << >>, away_ml |-> << >>, home_odds |-> <<167>>, away_odds |-> <<230>>],
      [home_ml |-> <<0 - 150>>, away_ml |-> << >>, home_odds |-> << >>, away_odds |-> <<230>>] }

InitAnalyze ==
    /\ Init
    /\ sport = "nba"

NextAnalyze ==
    \/ \E v \in PredictRatings : UpdateRating("Boston Celtics", v)
    \/ \E s \in Stakes : PlaceBet("home", 150, s)
    \/ \E r \in {"win", "loss"} : SettleBet(1, r)
    \/ \E g \in Fixtures, o \in AnalyzeOdds, u \in BOOLEAN :
           AnalyzeGame(GameArgs(g[1], g[2], o, Context(0, FALSE, FALSE, FALSE, FALSE),
                                u, FALSE))

SpecAnalyze == InitAnalyze /\ [][NextAnalyze]_vars

---------------------------------------------------------------------------
(* NBADatabase.get_betting_stats and get_pending_bets (the soccer          *)
(* database has the same two queries).                                     *)

\* SELECT SUM(stake) FROM bets
RECURSIVE SumStake(_)
SumStake(rows) ==
    IF rows = << >> THEN 0 ELSE Head(rows).stake + SumStake(Tail(rows))

\* SELECT SUM(profit_loss) FROM bets WHERE profit_loss IS NOT NULL
RECURSIVE SumProfitLoss(_)
SumProfitLoss(rows) ==
    IF rows = << >> THEN 0 ELSE Head(rows).profit_loss + SumProfitLoss(Tail(rows))

\* get_betting_stats counting as losses the rows whose result is 'loss'
get_betting_stats_LossRows(rows) ==
    LET total_bets   == Len(rows)
        settled_bets == Cardinality({ i \in DOMAIN rows : rows[i].result # "" })
        wins         == Cardinality({ i \in DOMAIN rows : rows[i].result = "win" })
        total_staked == SumStake(rows)
        total_pl     == SumProfitLoss(rows)
    IN  [total_bets |-> total_bets,
         settled_bets |-> settled_bets,
         wins |-> wins,
         total_staked |-> total_staked,
         pending_bets |-> total_bets - settled_bets,
         losses |-> Cardinality({ i \in DOMAIN rows : rows[i].result = "loss" }),
         win_rate |-> IF settled_bets > 0 THEN RoundDiv(wins * Hundred, settled_bets) ELSE 0,
         total_profit_loss |-> total_pl,
         roi |-> IF total_staked > 0 THEN RoundInt(total_pl * Hundred, total_staked) ELSE 0]

\* a NULL result is "", a NULL profit_loss is 0; win_rate and roi in 0.01 %
get_betting_stats(rows) ==
    LET total_bets   == Len(rows)
        settled_bets == Cardinality({ i \in DOMAIN rows : rows[i].result # "" })
        wins         == Cardinality({ i \in DOMAIN rows : rows[i].result = "win" })
        total_staked == SumStake(rows)
        total_pl     == SumProfitLoss(rows)
    IN  [total_bets |-> total_bets,
         settled_bets |-> settled_bets,
         wins |-> wins,
         total_staked |-> total_staked,
         pending_bets |-> total_bets - settled_bets,
         losses |-> settled_bets - wins,
         win_rate |-> IF settled_bets > 0 THEN RoundDiv(wins * Hundred, settled_bets) ELSE 0,
         total_profit_loss |-> total_pl,
         roi |-> IF total_staked > 0 THEN RoundInt(total_pl * Hundred, total_staked) ELSE 0]

\* SELECT * FROM bets WHERE result IS NULL
get_pending_bets(rows) == SelectSeq(rows, LAMBDA b : b.result = "")

GetBettingStats ==
    /\ sport = "nba"
    /\ ret' = get_betting_stats(bets)
    /\ raised' = ""
    /\ call' = [op |-> "get_betting_stats"]
    /\ UNCHANGED <<sport, threads, ratings0, ratings, dbRatings, gameResults, games, bets,
                   bankroll, settles>>

GetPendingBets ==
    /\ sport = "nba"
    /\ ret' = get_pending_bets(bets)
    /\ raised' = ""
    /\ call' = [op |-> "get_pending_bets"]
    /\ UNCHANGED <<sport, threads, ratings0, ratings, dbRatings, gameResults, games, bets,
                   bankroll, settles>>

NextStats ==
    \/ \E o \in BetOdds, s \in Stakes : PlaceBet("home", o, s)
    \/ \E i \in 1..(MaxBets + 1), r \in Results : SettleBet(i, r)
    \/ GetBettingStats
    \/ GetPendingBets

SpecStats == InitBets /\ [][NextStats]_vars

---------------------------------------------------------------------------
(* Helpers of the properties.                                              *)

\* the key a bot of this sport files a team name under
KeyOf(team) == IF sport = "nba" THEN normalize_team_name(team) ELSE team

\* the rating a read of key k finds or creates
RatingBefore(k) == IF k \in DOMAIN ratings THEN ratings[k] ELSE InitialRating

\* Two spellings name one team when they agree up to letter case and white
\* space, or one is a listed alias of the other's name.
TeamOf(name) ==
    LET l == StrLower(CollapseSpaces(Spell[name]))
    IN  IF \E p \in Aliases : Spell[p[1]] = l
        THEN StrLower(Spell[(CHOOSE p \in Aliases : Spell[p[1]] = l)[2]])
        ELSE l

---------------------------------------------------------------------------
(* C2: spellings of one team that differ only in letter case, white space  *)
(* or by being a listed alias read and write one rating entry: neither the *)
(* rating store nor the persisted table ever holds two entries for the     *)
(* same team.                                                              *)
C2_OneEntryPerTeam ==
    sport = "nba" =>
        /\ \A k1, k2 \in DOMAIN ratings : TeamOf(k1) = TeamOf(k2) => k1 = k2
        /\ \A k1, k2 \in DOMAIN dbRatings : TeamOf(k1) = TeamOf(k2) => k1 = k2

---------------------------------------------------------------------------
(* C3: get_rating on a team not in the store creates its entry at the      *)
(* initial rating and returns it; on a team in the store it returns the    *)
(* stored rating and leaves the store as it is, so a get_rating that       *)
(* follows a get_rating of the same team returns the same value and        *)
(* changes nothing.                                                        *)
C3_GetRatingStep ==
    call'.op = "get_rating" =>
        LET key == KeyOf(call'.team)
        IN  /\ key \in DOMAIN ratings'
            /\ ret' = ratings'[key]
            /\ \A k \in DOMAIN ratings : k \in DOMAIN ratings' /\ ratings'[k] = ratings[k]
            /\ DOMAIN ratings' = DOMAIN ratings \cup {key}
            /\ key \notin DOMAIN ratings => ret' = INITIAL_ELO * RatingScale
            /\ (call.op = "get_rating" /\ call.team = call'.team) =>
                   (ret' = ret /\ ratings' = ratings)

C3_LazyInitIdempotent == [][C3_GetRatingStep]_vars

C3_Witness ==
    /\ call.op = "get_rating"
    /\ ret = INITIAL_ELO * RatingScale
    /\ \E k \in DOMAIN ratings : ratings[k] # ret

---------------------------------------------------------------------------
(* C4: the Elo update is zero-sum: for a game between two different        *)
(* entries the home entry's change is the negative of the away entry's, in *)
(* update_ratings_after_game, update_ratings_after_match (draws included)  *)
(* and update_elo (for the K-factors in use and any result).               *)
C4_GameStep ==
    call'.op \in {"update_ratings_after_game", "update_ratings_after_match",
                  "update_ratings_from_result"} =>
        LET hk == KeyOf(call'.home)
            ak == KeyOf(call'.away)
        IN  hk # ak =>
                ratings'[hk] - RatingBefore(hk) = -(ratings'[ak] - RatingBefore(ak))

\* update_elo on the ratings the fetched games could meet, for each result
\* and each K-factor in use
C4_UpdateElo ==
    \A rh \in {RatingBefore(k) : k \in DOMAIN ratings} \cup {InitialRating},
       ra \in {RatingBefore(k) : k \in DOMAIN ratings} \cup {InitialRating},
       w \in BOOLEAN, k \in {ELO_K, NBA_ELO_K_FACTOR, SOCCER_ELO_K_FACTOR} :
        LET new == update_elo(rh, ra, w, k, ELO_HOME_ADV)
        IN  new[1] - rh = -(new[2] - ra)

C4_ApiStep ==
    (call'.op = "update_ratings_from_api" /\ ret' > 0) =>
        LET hk == normalize_team_name("BOS")
            ak == normalize_team_name("LAL")
        IN  /\ ratings'[hk] + ratings'[ak] = RatingBefore(hk) + RatingBefore(ak)
            /\ C4_UpdateElo

C4_ZeroSum == [][C4_GameStep /\ C4_ApiStep]_vars

C4_Witness ==
    /\ call.op \in {"update_ratings_after_game", "update_ratings_after_match"}
    /\ KeyOf(call.home) # KeyOf(call.away)
    /\ ratings[KeyOf(call.home)] + ratings[KeyOf(call.away)]
           = (INITIAL_ELO + 1600) * RatingScale
    /\ ratings[KeyOf(call.home)] \notin {InitialRating, 1600 * RatingScale}

---------------------------------------------------------------------------
(* C5: after an Elo update for a decided game between two different        *)
(* entries the winner's stored rating is strictly above its pre-game       *)
(* rating and the loser's strictly below.                                  *)
C5_HomeWon(c) ==
    IF c.op = "update_ratings_after_game" THEN c.home_won
    ELSE c.score[1] > c.score[2]

C5_Decided(c) ==
    \/ c.op \in {"update_ratings_after_game", "update_ratings_from_result"}
    \/ c.op = "update_ratings_after_match" /\ c.score[1] # c.score[2]

C5_GameStep ==
    (/\ call'.op \in {"update_ratings_after_game", "update_ratings_after_match",
                      "update_ratings_from_result"}
     /\ C5_Decided(call')
     /\ KeyOf(call'.home) # KeyOf(call'.away)) =>
        LET hk == KeyOf(call'.home)
            ak == KeyOf(call'.away)
            wk == IF C5_HomeWon(call') THEN hk ELSE ak
            lk == IF C5_HomeWon(call') THEN ak ELSE hk
        IN  /\ ratings'[wk] > RatingBefore(wk)
            /\ ratings'[lk] < RatingBefore(lk)

C5_WinnerGains == [][C5_GameStep]_vars

C5_Witness ==
    /\ call.op \in {"update_ratings_after_game", "update_ratings_after_match"}
    /\ C5_Decided(call)
    /\ KeyOf(call.home) # KeyOf(call.away)
    /\ LET wk == IF C5_HomeWon(call) THEN KeyOf(call.home) ELSE KeyOf(call.away)
           lk == IF C5_HomeWon(call) THEN KeyOf(call.away) ELSE KeyOf(call.home)
       IN  /\ ratings[wk] > InitialRating
           /\ ratings[lk] < InitialRating
           /\ ratings[wk] + ratings[lk] = 2 * InitialRating

---------------------------------------------------------------------------
(* Margin removal, staking, prediction, analysis and settlement.           *)

\* a sum of percentages is 100 within 0.01
Near100(x) == Abs(x - Hundred) <= 1

\* whether the last call was analyze_game and returned an analysis
Analysed ==
    /\ call.op = "analyze_game"
    /\ raised = ""

C6_TwoWaySumsTo100 ==
    /\ call.op = "predict_win_prob" =>
           /\ DOMAIN ret \ {"debug"} = {"home", "away"}
           /\ ("debug" \in DOMAIN ret) <=> call.return_debug
           /\ Near100(ret.home + ret.away)
           /\ ret.home > 0 /\ ret.home < Hundred
           /\ ret.away > 0 /\ ret.away < Hundred
    /\ Analysed =>
           /\ Near100(ret.true_probabilities.home + ret.true_probabilities.away)
           /\ ret.true_probabilities.home > 0 /\ ret.true_probabilities.away > 0

\* a calibrated prediction against a market pair that sums to 105, from
\* ratings far enough apart for the clamp to bind
C6_Witness ==
    /\ call.op = "predict_win_prob"
    /\ call.market_probabilities = << [home |-> 60 * Pct, away |-> 45 * Pct] >>
    /\ "Boston Celtics" \in DOMAIN ratings /\ "Los Angeles Lakers" \in DOMAIN ratings
    /\ Abs(ratings["Boston Celtics"] - ratings["Los Angeles Lakers"]) = 700 * RatingScale
    /\ Near100(ret.home + ret.away)

\* C7: predict_match_probabilities returns home, draw and away probabilities
\* that sum to 100 within 0.01, with no market triple and with any market
\* triple, one that sums to less than 100 included.
C7_ThreeWaySumsTo100 ==
    call.op = "predict_match_probabilities" => Near100(ret.home + ret.draw + ret.away)

\* C8: kelly_criterion is 0 when probability <= 0, probability >= 1,
\* odds <= 1 or the scaled Kelly value is <= 0; otherwise it is the smaller of
\* the scaled Kelly value and MAX_STAKE_PERCENT / 100.  With a multiplier >= 0
\* the result is in [0, cap], and kelly_criterion(0.6, 2.0, 0.5) is the cap 0.05.
C8_Kelly ==
    call.op = "kelly_criterion" =>
        LET p == call.probability
            o == call.odds
            f == IF call.fraction = << >> THEN KELLY_FRACTION ELSE call.fraction[1]
            cap == (5 * Unit) \div 100
            degenerate == p <= 0 \/ p >= Unit \/ o <= 100
            \* the scaled Kelly value times b * 100 * 100 * Unit, b = odds - 1 > 0
            scaled == ((o - 100) * p - 100 * (Unit - p)) * f
        IN  /\ degenerate => ret = 0
            /\ (~degenerate /\ scaled <= 0) => ret = 0
            /\ (~degenerate /\ scaled > 0) =>
                   /\ ret = Min(RoundInt(scaled, (o - 100) * 100), cap)
                   /\ (scaled >= cap * (o - 100) * 100) => ret = cap
            /\ f >= 0 => (ret >= 0 /\ ret <= cap)
            /\ (p = 6000 /\ o = 200 /\ f = 50) => ret = cap

\* kelly_criterion(0.6, 2.0, 0.5): raw 0.1, returned as the cap 0.05
C8_Witness ==
    /\ call.op = "kelly_criterion"
    /\ call.probability = 6000 /\ call.odds = 200 /\ call.fraction = <<50>>
    /\ ret = 500

\* C9: analyze_game recommends a bet exactly when the more probable outcome
\* (home on a tie) has model probability >= MIN_FAVORITE_PROB (62) and an
\* edge over the market >= MIN_EDGE (1); the bet_type recommended is that
\* outcome, never the other side.
C9_FavouriteOnly ==
    Analysed =>
        LET t == ret.true_probabilities
            m == ret.market_probabilities
            fav == IF t.home >= t.away THEN "home" ELSE "away"
        IN  /\ (ret.recommendation # << >>)
                   <=> (t[fav] >= 62 * Pct /\ t[fav] - m[fav] >= 1 * Pct)
            /\ ret.recommendation # << >> =>
                   /\ ret.recommendation[1].bet_type = fav
                   /\ ret.recommendation[1].true_probability = t[fav]
                   /\ ret.recommendation[1].edge = ret.edges[fav]

\* a recommendation for the away side, the favourite
C9_Witness ==
    /\ Analysed
    /\ ret.recommendation # << >>
    /\ ret.recommendation[1].bet_type = "away"
    /\ ret.true_probabilities.away > ret.true_probabilities.home

\* C10: once settle_bet has recorded a result for a bet id, a later settle_bet
\* on that id changes neither the bets table nor the bankroll.
C10_SettleStep ==
    (/\ call'.op = "settle_bet"
     /\ call'.bet_id \in 1..Len(bets)
     /\ bets[call'.bet_id].result # "")
        => (bets' = bets /\ bankroll' = bankroll)

C10_SettledOnce == [][C10_SettleStep]_vars

\* C11: settle_bet with a bet id that is not in the bets table fails with an
\* error instead of returning normally, and leaves the bankroll and every bet
\* record as they were.
C11_UnknownBetStep ==
    (call'.op = "settle_bet" /\ call'.bet_id \notin { bets[i].id : i \in DOMAIN bets })
        => /\ raised' # ""
           /\ bets' = bets
           /\ bankroll' = bankroll

C11_UnknownBetFails == [][C11_UnknownBetStep]_vars

\* C12: analyze_game raises exactly when it is given neither both moneylines
\* nor both decimal odds; the call that raises leaves the rating store (no
\* lazy entry for either team), the bankroll and the bet records unchanged,
\* and every other call returns an analysis.
C12_MissingOddsStep ==
    call'.op = "analyze_game" =>
        /\ (raised' = "ValueError")
               <=> ~(HasMoneylines(call'.args) \/ HasDecimalOdds(call'.args))
        /\ raised' = "ValueError" =>
             /\ ratings' = ratings
             /\ dbRatings' = dbRatings
             /\ bankroll' = bankroll
             /\ bets' = bets

C12_MissingOddsRaise == [][C12_MissingOddsStep]_vars

\* analyze_game raised for a call with one moneyline and one decimal price,
\* on a store that has no entry for the home team
C12_Witness ==
    /\ call.op = "analyze_game"
    /\ ~HasMoneylines(call.args) /\ ~HasDecimalOdds(call.args)
    /\ call.args.home_ml # << >> /\ call.args.away_odds # << >>
    /\ raised = "ValueError"
    /\ call.args.home_team \notin DOMAIN ratings

\* C13: when a decimal price handed to analyze_game is <= 1 (implied
\* probability 0), the analysis carries no recommendation, so no bet is ever
\* recommended at such a price.
C13_InvalidOddsNoBet ==
    (/\ Analysed
     /\ ~HasMoneylines(call.args)
     /\ call.args.home_odds[1] <= 100 \/ call.args.away_odds[1] <= 100)
        => ret.recommendation = << >>

\* the operations that convert between odds and implied probabilities
ConversionOps ==
    { "moneyline_to_implied_prob", "decimal_to_implied_prob",
      "implied_prob_to_decimal", "implied_prob_to_moneyline", "ml_to_decimal" }

\* C14: every odds conversion returns a value for every number it is given,
\* moneyline 0, odds <= 1 and probabilities outside (0, 100) included, and
\* analyze_game given a pair of moneylines does not raise, a moneyline of 0
\* included.
C14_ConversionsTotal ==
    /\ call.op \in ConversionOps => raised = ""
    /\ (call.op = "analyze_game" /\ HasMoneylines(call.args)) => raised = ""

\* C15: for a moneyline m other than 0, _ml_to_decimal(m) and
\* implied_prob_to_decimal(moneyline_to_implied_prob(m)) are the same decimal
\* odds (within 0.01).
C15_SamePrice ==
    (call.op = "ml_to_decimal" /\ call.ml # 0) =>
        /\ raised = ""
        /\ Abs(ret - implied_prob_to_decimal(moneyline_to_implied_prob(call.ml))) <= 1

\* _ml_to_decimal(-150) = 1.67, the odds of the implied probability 60
C15_Witness ==
    /\ call.op = "ml_to_decimal"
    /\ call.ml = 0 - 150
    /\ ret = 167
    /\ moneyline_to_implied_prob(call.ml) = 60 * Pct

\* the home probability predict_win_prob returns for the teams and the market
\* pair of the last call when the context is c
HomeProbUnder(c) ==
    predict_win_prob(ratings, call.home_team, call.away_team, c,
                     call.market_probabilities, FALSE).home

\* whether the home percentage under context c lies strictly inside the clamp
\* band before it is clamped
Unclamped(c) ==
    LET p == RoundDiv(compute_adjusted_ratings(ratings, call.home_team,
                                               call.away_team, c).home_win_p_raw
                      * Hundred, Unit)
    IN  p > NBA_MIN_PROBABILITY /\ p < NBA_MAX_PROBABILITY

\* the contexts that differ from c by one more penalty on the home side
HomePenalised(c) ==
    (IF c.home_b2b THEN {} ELSE { [c EXCEPT !.home_b2b = TRUE] })
    \cup (IF c.home_star_out THEN {} ELSE { [c EXCEPT !.home_star_out = TRUE] })

\* the contexts that differ from c by one change in favour of the home side
HomeFavoured(c) ==
    (IF c.away_b2b THEN {} ELSE { [c EXCEPT !.away_b2b = TRUE] })
    \cup (IF c.away_star_out THEN {} ELSE { [c EXCEPT !.away_star_out = TRUE] })
    \cup { [c EXCEPT !.rest_diff = @ + 1] }

\* C16 as stated: for every pair of ratings, all else equal, a home penalty
\* flag gives a strictly lower home probability and a flag or rest day in
\* favour of home gives a strictly higher one.
C16_FlagsStrict ==
    call.op = "predict_win_prob" =>
        /\ \A c \in HomePenalised(call.context) : HomeProbUnder(c) < ret.home
        /\ \A c \in HomeFavoured(call.context) : HomeProbUnder(c) > ret.home

\* C16 amended: a home penalty flag never gives a higher home probability and
\* a change in favour of home never a lower one; the change is strict when the
\* raw home percentage of either call lies strictly inside the clamp band
\* (5, 95), and when both are clamped at the same end the two results are equal.
C16_FlagsMonotone ==
    call.op = "predict_win_prob" =>
        /\ \A c \in HomePenalised(call.context) :
               /\ HomeProbUnder(c) <= ret.home
               /\ (Unclamped(c) \/ Unclamped(call.context)) => HomeProbUnder(c) < ret.home
        /\ \A c \in HomeFavoured(call.context) :
               /\ HomeProbUnder(c) >= ret.home
               /\ (Unclamped(c) \/ Unclamped(call.context)) => HomeProbUnder(c) > ret.home

\* a call with ratings 700 apart: the home probability is clamped with and
\* without the home back-to-back flag, and the two results are equal
C16_Witness ==
    /\ call.op = "predict_win_prob"
    /\ ~call.context.home_b2b
    /\ ~Unclamped(call.context)
    /\ HomeProbUnder([call.context EXCEPT !.home_b2b = TRUE]) = ret.home

\* C17: the soccer kelly_criterion on a bet with positive edge returns the
\* fractional Kelly stake fraction * (b * p - q) / b within 0.01; for
\* probability 0.6, odds 2.0 and fraction 0.5 that is 0.1.
C17_SoccerFractionalKelly ==
    (/\ call.op = "soccer_kelly_criterion"
     /\ call.probability > 0 /\ call.probability < Unit /\ call.odds > 100) =>
        LET f == IF call.fraction = << >> THEN SOCCER_KELLY_FRACTION ELSE call.fraction[1]
            scaled == ScaledKelly(call.probability, call.odds, f)
        IN  /\ scaled > 0 => Abs(ret - scaled) <= Unit \div 100
            /\ (call.probability = 6000 /\ call.odds = 200 /\ f = 50)
                   => Abs(ret - Unit \div 10) <= Unit \div 100

\* C18: margin removal on all-zero inputs returns a uniform split: 50/50
\* from remove_vig_two_way and 33.33/33.33/33.33 from remove_bookmaker_margin.
C18_ZeroInputsUniform ==
    /\ (call.op = "remove_vig_two_way" /\ call.home_prob = 0 /\ call.away_prob = 0)
           => (ret.home = 50 * Pct /\ ret.away = 50 * Pct)
    /\ (call.op = "remove_bookmaker_margin"
           /\ call.home_prob = 0 /\ call.draw_prob = 0 /\ call.away_prob = 0)
           => (ret.home = 3333 /\ ret.draw = 3333 /\ ret.away = 3333)

\* C19 as stated: remove_vig_two_way and remove_bookmaker_margin both return
\* their inputs unchanged whenever the inputs sum to 100 or less.
C19_UnchangedUpTo100 ==
    /\ (call.op = "remove_vig_two_way" /\ call.home_prob + call.away_prob <= Hundred)
           => (ret.home = call.home_prob /\ ret.away = call.away_prob)
    /\ (call.op = "remove_bookmaker_margin"
           /\ call.home_prob + call.draw_prob + call.away_prob <= Hundred)
           => /\ ret.home = call.home_prob
              /\ ret.draw = call.draw_prob
              /\ ret.away = call.away_prob

\* C19 amended: remove_bookmaker_margin returns its inputs unchanged when they
\* sum to 100 or less and rescales them by 100 / sum above 100;
\* remove_vig_two_way rescales by 100 / sum whenever the sum is positive, a sum
\* below 100 (scaled up) included, and returns 50/50 for a zero sum.
C19_PassThroughThreeWayOnly ==
    /\ call.op = "remove_bookmaker_margin" =>
           LET total == call.home_prob + call.draw_prob + call.away_prob
           IN  IF total <= Hundred
               THEN /\ ret.home = call.home_prob
                    /\ ret.draw = call.draw_prob
                    /\ ret.away = call.away_prob
               ELSE /\ ret.home = RoundDiv(call.home_prob * Hundred, total)
                    /\ ret.draw = RoundDiv(call.draw_prob * Hundred, total)
                    /\ ret.away = RoundDiv(call.away_prob * Hundred, total)
    /\ call.op = "remove_vig_two_way" =>
           LET total == call.home_prob + call.away_prob
           IN  IF total <= 0
               THEN ret.home = 50 * Pct /\ ret.away = 50 * Pct
               ELSE /\ ret.home = RoundDiv(call.home_prob * Hundred, total)
                    /\ ret.away = RoundDiv(call.away_prob * Hundred, total)
                    /\ total < Hundred => ret.home + ret.away > total

\* remove_vig_two_way(30, 30): the pair sums to 60 and is scaled up to 50/50
C19_Witness ==
    /\ call.op = "remove_vig_two_way"
    /\ call.home_prob = 30 * Pct /\ call.away_prob = 30 * Pct
    /\ ret.home = 50 * Pct /\ ret.away = 50 * Pct

\* the stakes of the bets of rows that have no result yet
RECURSIVE PendingStakes(_)
PendingStakes(rows) ==
    IF rows = << >> THEN 0
    ELSE (IF Head(rows).result = "" THEN Head(rows).stake ELSE 0)
         + PendingStakes(Tail(rows))

\* the recorded profit_loss of the bets of rows that have a result
RECURSIVE RecordedProfit(_)
RecordedProfit(rows) ==
    IF rows = << >> THEN 0
    ELSE (IF Head(rows).result # "" THEN Head(rows).profit_loss ELSE 0)
         + RecordedProfit(Tail(rows))

\* C20: when every bet is settled at most once, with win, loss or push,
\* bankroll = B0 - (stakes of the pending bets) + (recorded profit_loss of the
\* settled bets), and the recorded profit_loss is stake * (odds - 1) for a win,
\* -stake for a loss and 0 for a push.
C20_BankrollAccounting ==
    /\ bankroll = InitialBankroll - PendingStakes(bets) + RecordedProfit(bets)
    /\ \A i \in DOMAIN bets :
           /\ bets[i].result = "win" =>
                  bets[i].profit_loss = RoundInt(bets[i].stake * (bets[i].odds - 100), 100)
           /\ bets[i].result = "loss" => bets[i].profit_loss = 0 - bets[i].stake
           /\ bets[i].result = "push" => bets[i].profit_loss = 0
           /\ bets[i].result = "" => bets[i].profit_loss = 0

\* two bets placed, the first settled as a push and the second still pending
C20_Witness ==
    /\ Len(bets) = 2
    /\ bets[1].result = "push"
    /\ bets[2].result = ""
    /\ call.op = "settle_bet"
    /\ bankroll = InitialBankroll - bets[2].stake

---------------------------------------------------------------------------
(* Helpers of the claims on the rating updates.                            *)

\* the fetched games of an update_ratings_from_api call c that are applied
AppliedGames(c) == { i \in DOMAIN c.fetched : ApiGameCounts(c.fetched[i]) }

\* the one applied game of a call that applies exactly one
AppliedGame(c) == c.fetched[CHOOSE i \in AppliedGames(c) : TRUE]

\* C21: an Elo update computes both new ratings from the two pre-game
\* ratings, read before either is written: after update_ratings_after_game,
\* update_ratings_after_match and one applied game of update_ratings_from_api
\* the away entry holds the away rating moved by K * (actual - expected) with
\* the expectation taken on the two pre-game ratings, and so does the home
\* entry when it is a different entry.
C21_NbaStep ==
    call'.op \in {"update_ratings_after_game", "update_ratings_from_result"} =>
        LET hk == KeyOf(call'.home)
            ak == KeyOf(call'.away)
            hw == C5_HomeWon(call')
            e  == expected_score(RatingBefore(hk), RatingBefore(ak))
        IN  /\ ratings'[ak] = RatingBefore(ak)
                   + EloDelta(NBA_ELO_K_FACTOR, IF hw THEN 0 ELSE Unit, Unit - e)
            /\ hk # ak => ratings'[hk] = RatingBefore(hk)
                   + EloDelta(NBA_ELO_K_FACTOR, IF hw THEN Unit ELSE 0, e)

C21_SoccerStep ==
    call'.op = "update_ratings_after_match" =>
        LET hk == KeyOf(call'.home)
            ak == KeyOf(call'.away)
            s  == call'.score
            e  == expected_score(RatingBefore(hk), RatingBefore(ak))
            ha == IF s[1] > s[2] THEN Unit ELSE IF s[1] < s[2] THEN 0 ELSE Unit \div 2
        IN  /\ ratings'[ak] = RatingBefore(ak)
                   + EloDelta(SOCCER_ELO_K_FACTOR, Unit - ha, Unit - e)
            /\ hk # ak => ratings'[hk] = RatingBefore(hk)
                   + EloDelta(SOCCER_ELO_K_FACTOR, ha, e)

C21_ApiStep ==
    (call'.op = "update_ratings_from_api" /\ Cardinality(AppliedGames(call')) = 1) =>
        LET g   == AppliedGame(call')
            hk  == normalize_team_name(g.home_abbr)
            ak  == normalize_team_name(g.visitor_abbr)
            new == update_elo(RatingBefore(hk), RatingBefore(ak),
                              g.home_team_score > g.visitor_team_score,
                              ELO_K, ELO_HOME_ADV)
        IN  /\ ratings'[ak] = new[2]
            /\ hk # ak => ratings'[hk] = new[1]

C21_BothFromPreGame == [][C21_NbaStep /\ C21_SoccerStep /\ C21_ApiStep]_vars

\* a game between two entries of different pre-game ratings has moved both
C21_Witness ==
    /\ call.op = "update_ratings_after_game"
    /\ KeyOf(call.home) # KeyOf(call.away)
    /\ ratings[KeyOf(call.home)] + ratings[KeyOf(call.away)]
           = (INITIAL_ELO + 1600) * RatingScale
    /\ ratings[KeyOf(call.home)] > 1600 * RatingScale

\* the keys of the two teams of thread t's game
ThreadTeams(t) == { ThreadKey(threads[t].home), ThreadKey(threads[t].away) }

\* the store after the game of thread t, then that of thread u, each run alone
ThreadsInTurn(t, u) ==
    NBA_update_ratings_after_game(
        NBA_update_ratings_after_game(ratings0, threads[t].home, threads[t].away,
                                      threads[t].home_won),
        threads[u].home, threads[u].away, threads[u].home_won)

ThreadsDone == \A t \in Threads : threads[t].pc = "done"

\* C22: when two update_ratings_after_game executions for games with
\* disjoint team pairs share one rating map, every interleaving of their
\* reads and writes ends in the ratings that running the two one after the
\* other gives, in either order.
C22_DisjointGamesCommute ==
    (ThreadsDone /\ ThreadTeams(1) \cap ThreadTeams(2) = {}) =>
        /\ ratings = ThreadsInTurn(1, 2)
        /\ ratings = ThreadsInTurn(2, 1)

\* both executions have finished, each took a step while the other was inside
\* its call, and the ratings of all four teams were stored
C22_Witness ==
    /\ ThreadsDone
    /\ ThreadTeams(1) \cap ThreadTeams(2) = {}
    /\ \A t \in Threads : threads[t].raced
    /\ Cardinality(DOMAIN ratings) = 4
    /\ ratings # ratings0

---------------------------------------------------------------------------
(* Helpers of the claims on the context adjustments.                       *)

\* every context with a rest difference of at most two days
AllContexts ==
    { Context(d, hb, ab, hs, as) :
        d \in (0 - 2)..2, hb \in BOOLEAN, ab \in BOOLEAN, hs \in BOOLEAN, as \in BOOLEAN }

\* the probabilities predict_win_prob gives the last call's market for the
\* game (home, away) in context c
SameMarketProbs(home, away, c) ==
    predict_win_prob(ratings, home, away, c, call.market_probabilities, FALSE)

SameProbs(p, q) == p.home = q.home /\ p.away = q.away

\* C23: in the 2-way predictor a context adjustment acts only through the
\* adjusted Elo difference: a predict_win_prob call for any game and context
\* with the same market probabilities and the same (adjusted home - adjusted
\* away) as the last call returns the same probabilities; so both
\* back-to-back flags together give what neither gives, and two days of
\* extra rest with a home back-to-back give the base prediction.
C23_OnlyThroughEloDiff ==
    call.op = "predict_win_prob" =>
        LET mine == compute_adjusted_ratings(ratings, call.home_team, call.away_team,
                                             call.context).elo_diff
        IN  /\ \A g \in PredictNames \X PredictNames, c \in AllContexts :
                   compute_adjusted_ratings(ratings, g[1], g[2], c).elo_diff = mine
                       => SameProbs(SameMarketProbs(g[1], g[2], c), ret)
            /\ call.context = Context(0, FALSE, FALSE, FALSE, FALSE) =>
                   /\ SameProbs(SameMarketProbs(call.home_team, call.away_team,
                                    Context(0, TRUE, TRUE, FALSE, FALSE)), ret)
                   /\ SameProbs(SameMarketProbs(call.home_team, call.away_team,
                                    Context(2, TRUE, FALSE, FALSE, FALSE)), ret)

\* a base prediction with a market, away from the clamps, that a home
\* back-to-back alone would have changed
C23_Witness ==
    /\ call.op = "predict_win_prob"
    /\ call.context = Context(0, FALSE, FALSE, FALSE, FALSE)
    /\ call.market_probabilities # << >>
    /\ ret.home > NBA_MIN_PROBABILITY /\ ret.home < NBA_MAX_PROBABILITY
    /\ ratings[call.home_team] # ratings[call.away_team]
    /\ ~SameProbs(SameMarketProbs(call.home_team, call.away_team,
                                  Context(0, TRUE, FALSE, FALSE, FALSE)), ret)

---------------------------------------------------------------------------
(* Helpers of the claims on the 3-way split.                               *)

\* a predict_match_probabilities call without a market triple has returned
SplitReturned ==
    /\ call.op = "predict_match_probabilities"
    /\ call.market_probabilities = << >>

\* the home win expectation of the last predict_match_probabilities call
CallExpectation ==
    HomeWinExpectation(ratings[call.home_team], ratings[call.away_team], call.form)

\* the expectations 0, 0.01, ..., 1
ExpectationGrid == { n * (Unit \div 100) : n \in 0..100 }

\* C24: the 3-way split is mirror-symmetric: the (home, draw, away) triple
\* for a home win expectation e is the (away, draw, home) triple for 1 - e,
\* and at e = 0.5 the home and away probabilities are equal.
C24_MirrorSymmetric ==
    SplitReturned =>
        LET mirror == SoccerRawProbs(Unit - CallExpectation)
        IN  /\ ret.home = mirror.away
            /\ ret.draw = mirror.draw
            /\ ret.away = mirror.home
            /\ CallExpectation = Unit \div 2 => ret.home = ret.away

\* C25: in the 3-way predictor a stronger home win expectation never gives a
\* lower uncalibrated home probability, and an expectation above 0.5 gives a
\* home probability that is at least the away probability.
C25_HomeMonotone ==
    SplitReturned =>
        /\ \A e \in ExpectationGrid :
               /\ e >= CallExpectation => SoccerRawProbs(e).home >= ret.home
               /\ e <= CallExpectation => SoccerRawProbs(e).home <= ret.home
        /\ CallExpectation > Unit \div 2 => ret.home >= ret.away

---------------------------------------------------------------------------
(* Helpers of the claims on update_ratings_from_api.                       *)

\* a status field that reads "final" or begins with "final/", whatever its case
ReadsFinal(v) ==
    \/ StatusText(v) = Spell["final"]
    \/ StartsWith(StatusText(v), Spell["final/"])

\* a fetched game with a final status field and both scores
FinalWithScores(g) ==
    /\ ReadsFinal(g.status) \/ ReadsFinal(g.period_detail)
    /\ g.home_team_score # NoScore
    /\ g.visitor_team_score # NoScore

\* C26: update_ratings_from_api applies an Elo update for a fetched game
\* exactly when one of its status fields (status, period_detail), whatever
\* its case, is "final" or begins with "final/" and both scores are present;
\* the other games leave the rating store and the persisted ratings as they
\* were, and the count returned is the number of games updated.
C26_ApiStep ==
    call'.op = "update_ratings_from_api" =>
        LET gs     == call'.fetched
            finals == { i \in DOMAIN gs : FinalWithScores(gs[i]) }
        IN  /\ ret' = Cardinality(finals)
            /\ finals = {} => ratings' = ratings /\ dbRatings' = dbRatings
            /\ finals # {} => ratings' # ratings /\ dbRatings' # dbRatings
            /\ gameResults' = gameResults + Cardinality(finals)

C26_FinalGamesOnly == [][C26_ApiStep]_vars

\* C27: after any sequence of update_ratings_from_result,
\* update_ratings_from_api and CSV imports, every team these operations gave
\* a rating has that rating persisted under its canonical name.
C27_PersistedIsCurrent ==
    \A k \in DOMAIN ratings :
        /\ normalize_team_name(k) \in DOMAIN dbRatings
        /\ dbRatings[normalize_team_name(k)] = ratings[k]

\* a team imported from the file at 1600 and then moved by a game result
C27_Witness ==
    /\ call.op = "update_ratings_from_result"
    /\ Cardinality(DOMAIN ratings) = 2
    /\ "Boston Celtics" \in DOMAIN ratings
    /\ ratings["Boston Celtics"] > 1600 * RatingScale
    /\ dbRatings["Boston Celtics"] = ratings["Boston Celtics"]

\* C28: analyze_game changes nothing but the rating store's lazily created
\* entries: the bankroll, every bet record, the persisted ratings and the
\* rating of every team already in the store stay as they were, and an entry
\* it adds is one of the two named teams at the initial rating.
C28_AnalyzeStep ==
    call'.op = "analyze_game" =>
        /\ bankroll' = bankroll
        /\ bets' = bets
        /\ dbRatings' = dbRatings
        /\ \A k \in DOMAIN ratings : k \in DOMAIN ratings' /\ ratings'[k] = ratings[k]
        /\ \A k \in (DOMAIN ratings') \ (DOMAIN ratings) :
               /\ k \in { normalize_team_name(call'.args.home_team),
                           normalize_team_name(call'.args.away_team) }
               /\ ratings'[k] = INITIAL_ELO * RatingScale

C28_AnalyzeReadOnly == [][C28_AnalyzeStep]_vars

\* an analysis has returned on a bot with a bet placed, one team rated 1900
\* beforehand and the other created by the analysis
C28_Witness ==
    /\ Analysed
    /\ Len(bets) >= 1
    /\ bankroll # InitialBankroll
    /\ DOMAIN ratings = {"Boston Celtics", "Los Angeles Lakers"}
    /\ ratings["Boston Celtics"] = 1900 * RatingScale
    /\ ratings["Los Angeles Lakers"] = INITIAL_ELO * RatingScale

---------------------------------------------------------------------------
(* Helpers of the claim on the betting statistics.                         *)

\* the number of rows of the bet table with result r ("" for none recorded)
RowsWith(r) == Cardinality({ i \in DOMAIN bets : bets[i].result = r })

\* C29: in every state of the bet table get_betting_stats has
\* pending_bets + settled_bets = total_bets and wins + losses =
\* settled_bets, with wins the number of results equal to 'win', so that a
\* bet settled as 'push' is counted as a loss; and get_pending_bets returns
\* exactly the bets with no recorded result.
C29_StatsAddUp ==
    LET stats   == get_betting_stats(bets)
        pending == get_pending_bets(bets)
    IN  /\ stats.pending_bets + stats.settled_bets = stats.total_bets
        /\ stats.wins + stats.losses = stats.settled_bets
        /\ stats.total_bets = Len(bets)
        /\ stats.wins = RowsWith("win")
        /\ stats.losses = RowsWith("loss") + RowsWith("push")
        /\ Len(pending) = stats.pending_bets
        /\ \A i \in DOMAIN bets :
               (\E j \in DOMAIN pending : pending[j] = bets[i]) <=> bets[i].result = ""
        /\ call.op = "get_betting_stats" => ret = stats
        /\ call.op = "get_pending_bets" => ret = pending

\* the statistics of a table with one push and one pending bet: one loss
C29_Witness ==
    /\ call.op = "get_betting_stats"
    /\ Len(bets) = 2
    /\ RowsWith("push") = 1
    /\ RowsWith("") = 1
    /\ ret.losses = 1
    /\ ret.wins = 0
    /\ ret.pending_bets = 1

\* C30: the two NBA Elo update paths agree: from the same pre-game ratings
\* and the same outcome, update_ratings_from_api (through update_elo) stores
\* the ratings update_ratings_from_result (through
\* update_ratings_after_game) would store, and the other way round.
C30_ApiAsResult ==
    (call'.op = "update_ratings_from_api" /\ Cardinality(AppliedGames(call')) = 1) =>
        LET g == AppliedGame(call')
        IN  ratings' = NBA_update_ratings_after_game(ratings, g.home_abbr, g.visitor_abbr,
                           g.home_team_score > g.visitor_team_score)

C30_ResultAsApi ==
    (call'.op = "update_ratings_from_result"
        /\ KeyOf(call'.home) # KeyOf(call'.away)) =>
        LET new == update_elo(RatingBefore(KeyOf(call'.home)), RatingBefore(KeyOf(call'.away)),
                              call'.score[1] > call'.score[2], ELO_K, ELO_HOME_ADV)
        IN  /\ ratings'[KeyOf(call'.home)] = new[1]
            /\ ratings'[KeyOf(call'.away)] = new[2]

C30_PathsAgree == [][C30_ApiAsResult /\ C30_ResultAsApi]_vars

=============================================================================
